---- MODULE Spec2Model ----
(***************************************************************************)
(* A model of justopinion: Decision.add_opinion and the lookup it rests    *)
(* on, normalize_case_cite, the construction of an Opinion (author         *)
(* normalization), the text selection operations of an Opinion, the        *)
(* string form and the read operations of a Decision, several Decisions    *)
(* that hold the same Opinion objects, and the calls of a CAPClient.       *)
(*                                                                         *)
(* Python values are modelled as follows.  An Optional[X] is a sequence of *)
(* length 0 (None) or 1.  A str that the code only compares (an opinion    *)
(* type, an author inside a Decision) is a TLA+ string; a str the code     *)
(* takes apart (the author handed to the Opinion constructor, an opinion   *)
(* text) is a sequence of one-character strings.                           *)
(***************************************************************************)
EXTENDS Integers, Sequences, FiniteSets, TLC

VARIABLES
    casebody,   \* Decision.casebody: absent (None) or the list of its opinions
    opinion,    \* the Opinion handed to the last add_opinion call, if any
    raised,     \* what the last add_opinion call raised, if anything
    cite,       \* the argument of the last normalize_case_cite call, if any
    normalized, \* what that call returned or raised
    kwargs,     \* the arguments Opinion(...) is constructed with
    self,       \* the Opinion constructed from them, once it is
    selection,  \* the selection handed to locate_text and select_text
    matching,   \* how the selector package resolves a repeated quote
    located,    \* what locate_text returned or raised, once called
    selected,   \* what select_text returned or raised, once called
    decision,   \* the fields of a Decision that its string form reads
    shown,      \* str(decision), once it was asked for
    asked,      \* the last read of the Decision, if nothing was called since
    several,    \* several Opinions, each with a text
    selectors,  \* for each of them, the selection its methods are called with
    answers,    \* what each locate_text and select_text call on them returned
    heap,       \* the Opinion objects, by their identity
    casebodies, \* for each of several Decisions, its casebody: a list of identities
    last,       \* the last call on one of these Decisions or on an Opinion of it
    client,     \* a CAPClient or a CourtListenerClient, as its constructor left it
    query,      \* the query or id or citation of the call made on the client
    full_case,  \* the full_case argument of that call
    api,        \* how the API answers the request, if one is sent
    done,       \* the call once it was made: what it did, returned or raised
    memory,     \* a Decision two threads share: its casebody attribute, and the
                \* opinion list of every CaseBody object
    calls,      \* the add_opinion call of each thread: where it is, its locals
    interleaved \* whether a step of one call was taken in the middle of the other

decision_vars == <<casebody, opinion, raised>>
cite_vars == <<cite, normalized>>
opinion_vars == <<kwargs, self>>
text_vars == <<selection, matching, located, selected>>
str_vars == <<decision, shown>>
read_vars == <<asked>>
several_vars == <<several, selectors, answers>>
heap_vars == <<heap, casebodies, last>>
client_vars == <<client, query, full_case, api, done>>
race_vars == <<memory, calls, interleaved>>
other_vars == <<str_vars, read_vars, several_vars, heap_vars, client_vars, race_vars>>
vars == <<decision_vars, cite_vars, opinion_vars, text_vars, other_vars>>

(***************************************************************************)
(* Bounds of the model.                                                    *)
(***************************************************************************)
MaxOpinions == 3
MaxTextItems == 3
MaxPieces == 4
MaxSelections == 2
MaxObjects == 2

(***************************************************************************)
(* Decision                                                                *)
(***************************************************************************)
OpinionTypes == {"", "majority", "dissent"}
OpinionAuthors == {"", "Scalia", "Breyer"}

\* An Opinion, as far as a Decision looks at it: its type and its author.
Opinion == [type : OpinionTypes, author : OpinionAuthors]

\* casebody = None
NoCaseBody == [present |-> FALSE, opinions |-> <<>>]

\* CaseBody(data=CaseData()) : a casebody whose opinion list is empty
CaseBody == [present |-> TRUE, opinions |-> <<>>]

\* Decision.opinions
opinions == IF casebody.present THEN casebody.opinions ELSE <<>>

\* the condition of the loop of find_matching_opinion
MatchesOpinion(o, opinion_type, opinion_author) ==
    /\ (opinion_type = o.type) \/ (opinion_type = "")
    /\ (opinion_author = o.author) \/ (opinion_author = "")

\* a find_matching_opinion loop that goes on to the last Opinion that matches
find_last_match(opinion_type, opinion_author) ==
    LET hits == {i \in 1..Len(opinions) :
                    MatchesOpinion(opinions[i], opinion_type, opinion_author)}
    IN  IF hits = {} THEN <<>>
        ELSE <<opinions[CHOOSE i \in hits : \A j \in hits : j <= i]>>

\* the for loop of find_matching_opinion: the first Opinion, in list order,
\* that satisfies its condition, or None
find_first_match(opinion_type, opinion_author) ==
    LET hits == {i \in 1..Len(opinions) :
                    MatchesOpinion(opinions[i], opinion_type, opinion_author)}
    IN  IF hits = {} THEN <<>>
        ELSE <<opinions[CHOOSE i \in hits : \A j \in hits : i <= j]>>

\* a lookup that compares the key exactly, without the empty-string wildcards
find_exact_opinion(opinion_type, opinion_author) ==
    LET hits == {i \in 1..Len(opinions) :
                    /\ opinions[i].type = opinion_type
                    /\ opinions[i].author = opinion_author}
    IN  IF hits = {} THEN <<>>
        ELSE <<opinions[CHOOSE i \in hits : \A j \in hits : i <= j]>>

\* a lookup that only looks at the first Opinion of the list
find_first_only(opinion_type, opinion_author) ==
    IF Len(opinions) >= 1
       /\ MatchesOpinion(opinions[1], opinion_type, opinion_author)
    THEN <<opinions[1]>>
    ELSE <<>>

\* a lookup that finds nothing when neither a type nor an author is given
find_none_when_blank(opinion_type, opinion_author) ==
    IF opinion_type = "" /\ opinion_author = ""
    THEN <<>>
    ELSE find_first_match(opinion_type, opinion_author)

\* Decision.find_matching_opinion: None (<<>>) or the Opinion found
find_matching_opinion(opinion_type, opinion_author) ==
    IF opinion_type = "" /\ opinion_author = ""
    THEN IF Len(opinions) >= 1 THEN <<opinions[1]>> ELSE <<>>
    ELSE find_first_match(opinion_type, opinion_author)

NoError == [error |-> "", type |-> "", author |-> ""]

\* DecisionError, with the type and the author its message names
DecisionError(existing) ==
    [error |-> "DecisionError", type |-> existing.type, author |-> existing.author]

\* add_opinion that appends before it looks for an existing Opinion
add_opinion_append_first(o) ==
    LET existing == find_matching_opinion(o.type, o.author)
        kept == IF casebody.present THEN casebody ELSE CaseBody
    IN  /\ existing # <<>> \/ Len(opinions) < MaxOpinions
        /\ opinion' = <<o>>
        /\ casebody' = [kept EXCEPT !.opinions = Append(@, o)]
        /\ raised' = IF existing # <<>> THEN DecisionError(existing[1]) ELSE NoError

\* add_opinion that puts the new Opinion in front of the list
add_opinion_at_front(o) ==
    LET existing == find_matching_opinion(o.type, o.author)
        kept == IF casebody.present THEN casebody ELSE CaseBody
    IN  /\ existing # <<>> \/ Len(opinions) < MaxOpinions
        /\ opinion' = <<o>>
        /\ IF existing # <<>>
           THEN /\ raised' = DecisionError(existing[1])
                /\ UNCHANGED casebody
           ELSE /\ raised' = NoError
                /\ casebody' = [kept EXCEPT !.opinions = <<o>> \o @]

\* Decision.add_opinion
add_opinion(o) ==
    LET existing == find_matching_opinion(o.type, o.author)
        kept == IF casebody.present THEN casebody ELSE CaseBody
    IN  /\ existing # <<>> \/ Len(opinions) < MaxOpinions
        /\ opinion' = <<o>>
        /\ IF existing # <<>>
           THEN /\ raised' = DecisionError(existing[1])
                /\ UNCHANGED casebody
           ELSE /\ raised' = NoError
                /\ casebody' = [kept EXCEPT !.opinions = Append(@, o)]

\* Decision(decision_date=...) without a casebody, or with an empty one;
\* no add_opinion call has been made.
InitDecision ==
    /\ casebody \in {NoCaseBody, CaseBody}
    /\ opinion = <<>>
    /\ raised = NoError

AddOpinion == \E o \in Opinion : add_opinion(o)

\* Decision.majority: the first Opinion whose type is "majority", or None
majority ==
    LET hits == {i \in 1..Len(opinions) : opinions[i].type = "majority"}
    IN  IF hits = {} THEN <<>>
        ELSE <<opinions[CHOOSE i \in hits : \A j \in hits : i <= j]>>

\* a read of the Decision and what it returned: a list of Opinions, or an
\* Optional[Opinion]
Asked(op, opinion_type, opinion_author, returned) ==
    <<[op |-> op, opinion_type |-> opinion_type,
       opinion_author |-> opinion_author, returned |-> returned]>>

\* no read has been made
IdleRead == asked = <<>>

\* decision.opinions
ReadOpinions ==
    /\ asked' = Asked("opinions", "", "", opinions)
    /\ UNCHANGED decision_vars

\* decision.majority
ReadMajority ==
    /\ asked' = Asked("majority", "", "", majority)
    /\ UNCHANGED decision_vars

\* decision.find_matching_opinion(opinion_type, opinion_author)
FindMatchingOpinion ==
    \E opinion_type \in OpinionTypes, opinion_author \in OpinionAuthors :
        /\ asked' = Asked("find_matching_opinion", opinion_type, opinion_author,
                          find_matching_opinion(opinion_type, opinion_author))
        /\ UNCHANGED decision_vars

(***************************************************************************)
(* Citations                                                               *)
(***************************************************************************)
\* What eyecite.get_citations finds in a text: case citations (the classes
\* FullCaseCitation and ShortCaseCitation derive from CaseCitation) and
\* citations of other kinds.  A reporter is the sequence of its words.
CaseCitations ==
    { [kind |-> "FullCaseCitation", volume |-> "3", reporter |-> <<"US">>,
       page |-> "100"],
      [kind |-> "FullCaseCitation", volume |-> "9", reporter |-> <<"F.", "Cas.">>,
       page |-> "50"] }

OtherCitations ==
    { [kind |-> "IdCitation", volume |-> "", reporter |-> <<>>, page |-> "37"],
      [kind |-> "SupraCitation", volume |-> "", reporter |-> <<>>, page |-> "12"] }

\* a word of a text that is no citation
Words == { [kind |-> "Word", volume |-> "", reporter |-> <<"see">>, page |-> ""] }

\* isinstance(possible, CaseCitation)
IsCaseCitation(c) == c.kind \in {"FullCaseCitation", "ShortCaseCitation"}

\* sequences over S of length at most n
SeqUpTo(S, n) == UNION {[1..k -> S] : k \in 0..n}

\* the arguments of normalize_case_cite: a str (the items of the text), a
\* CAPCitation or a CaseCitation
CiteArguments ==
    { [class |-> "str", text |-> t, cap |-> "", citation |-> <<>>] :
        t \in SeqUpTo(CaseCitations \cup OtherCitations \cup Words, MaxTextItems) }
    \cup { [class |-> "CAPCitation", text |-> <<>>, cap |-> c, citation |-> <<>>] :
        c \in {"460 F. 3d 337", "15 Ill., 284"} }
    \cup { [class |-> "CaseCitation", text |-> <<>>, cap |-> "", citation |-> <<c>>] :
        c \in CaseCitations }

\* get_citations(cite): the citations of the text, in the order of the text
get_citations(text) == SelectSeq(text, LAMBDA item : item.kind # "Word")

\* the reporter as eyecite corrects it
corrected_reporter(reporter) ==
    IF reporter = <<"US">> THEN <<"U.S.">> ELSE reporter

\* CaseCitation.corrected_citation(): volume, corrected reporter and page,
\* separated by single spaces; the str is the sequence of the parts the
\* spaces separate
corrected_citation(c) == <<c.volume>> \o corrected_reporter(c.reporter) \o <<c.page>>

Returned(value) == [raised |-> "", value |-> value, message |-> <<>>]

\* f"Could not locate a CaseCitation in the text {cite}."
CouldNotLocate(text) == [part |-> "Could not locate a CaseCitation in the text",
                         of |-> text]

\* f" {bad_cite} was type {bad_cite.__class__.__name__}, not CaseCitation."
WasType(bad_cite) == [part |-> "was type, not CaseCitation",
                      of |-> <<bad_cite>>, type |-> bad_cite.kind]

\* a loop that reports the first bad cite only
RECURSIVE error_msg_first_only(_, _)
error_msg_first_only(msg, bad_cites) ==
    IF bad_cites = <<>> THEN msg
    ELSE Append(msg, WasType(Head(bad_cites)))

\* the second loop of normalize_case_cite: one sentence for each bad cite
RECURSIVE error_msg(_, _)
error_msg(msg, bad_cites) ==
    IF bad_cites = <<>> THEN msg
    ELSE error_msg(Append(msg, WasType(Head(bad_cites))), Tail(bad_cites))

\* a search that returns the last case citation of the text, not the first
RECURSIVE search_cites_last(_, _, _, _)
search_cites_last(text, possible_cites, i, bad_cites) ==
    LET cases == {j \in i..Len(possible_cites) : IsCaseCitation(possible_cites[j])}
    IN  IF cases = {}
        THEN [raised |-> "ValueError", value |-> <<>>,
              message |-> <<CouldNotLocate(text)>>]
        ELSE Returned(corrected_citation(
                 possible_cites[CHOOSE j \in cases : \A k \in cases : k <= j]))

\* the first loop of normalize_case_cite, from possible_cites[i] on, and what
\* follows it when it ends without returning
RECURSIVE search_cites(_, _, _, _)
search_cites(text, possible_cites, i, bad_cites) ==
    IF i > Len(possible_cites)
    THEN [raised |-> "ValueError", value |-> <<>>,
          message |-> error_msg(<<CouldNotLocate(text)>>, bad_cites)]
    ELSE IF IsCaseCitation(possible_cites[i])
         THEN Returned(corrected_citation(possible_cites[i]))
         ELSE search_cites(text, possible_cites, i + 1,
                           Append(bad_cites, possible_cites[i]))

\* normalize_case_cite
normalize_case_cite(c) ==
    IF c.class = "CAPCitation" THEN Returned(<<c.cap>>)
    ELSE IF c.class = "str"
         THEN search_cites(c.text, get_citations(c.text), 1, <<>>)
         ELSE Returned(corrected_citation(c.citation[1]))

InitCite ==
    /\ cite = <<>>
    /\ normalized = Returned(<<>>)

NormalizeCaseCite ==
    \E c \in CiteArguments :
        /\ cite' = <<c>>
        /\ normalized' = normalize_case_cite(c)

(***************************************************************************)
(* Opinion                                                                 *)
(***************************************************************************)
\* str values, as sequences of characters
Judge_ == <<"J", "u", "d", "g", "e", ".">>
Judge == <<"J", "u", "d", "g", "e">>
Justice_ == <<"J", "u", "s", "t", "i", "c", "e", ".">>
Justice == <<"J", "u", "s", "t", "i", "c", "e">>
Scalia == <<"S", "c", "a", "l", "i", "a">>

\* the characters of ", -:;"
StripCharsAndPeriod == {",", " ", "-", ":", ";", "."}

StripChars == {",", " ", "-", ":", ";"}

\* the pieces the author names of the model are made of
AuthorPieces == {Judge_, Justice_, Scalia, <<".">>, <<" ">>, <<",">>, <<"-">>}

\* the concatenations of n pieces
RECURSIVE Concatenations(_)
Concatenations(n) ==
    IF n = 0 THEN {<<>>}
    ELSE {piece \o rest : piece \in AuthorPieces, rest \in Concatenations(n - 1)}

\* the author arguments of the model: None (<<>>) or a str
AuthorArguments ==
    {<<>>} \cup {<<a>> : a \in UNION {Concatenations(n) : n \in 0..MaxPieces}}

\* str.replace(old, new), old not empty: the occurrences of old, found from
\* the left and not overlapping, are replaced by new
RECURSIVE replace(_, _, _)
replace(str, old, new) ==
    IF Len(str) < Len(old) THEN str
    ELSE IF SubSeq(str, 1, Len(old)) = old
         THEN new \o replace(SubSeq(str, Len(old) + 1, Len(str)), old, new)
         ELSE <<Head(str)>> \o replace(Tail(str), old, new)

\* str.lstrip(chars)
RECURSIVE lstrip(_, _)
lstrip(str, chars) ==
    IF str # <<>> /\ Head(str) \in chars THEN lstrip(Tail(str), chars) ELSE str

\* str.rstrip(chars)
RECURSIVE rstrip(_, _)
rstrip(str, chars) ==
    IF str # <<>> /\ str[Len(str)] \in chars
    THEN rstrip(SubSeq(str, 1, Len(str) - 1), chars)
    ELSE str

\* str.strip(chars)
strip(str, chars) == rstrip(lstrip(str, chars), chars)

\* Opinion.remove_author_name_punctuation
remove_author_name_punctuation(v) ==
    LET result == IF v = <<>> \/ v[1] = <<>> THEN <<>> ELSE v[1]
        replaced == replace(replace(result, Judge_, Judge), Justice_, Justice)
    IN  strip(replaced, StripChars)

\* the arguments of Opinion(...): type, author and text
OpinionArguments ==
    [type : {"majority"}, author : AuthorArguments, text : {<<>>}]

\* before Opinion(**kwargs) has run
InitOpinion ==
    /\ kwargs \in OpinionArguments
    /\ self = <<>>

\* no Opinion is being constructed
IdleOpinion ==
    /\ kwargs = [type |-> "majority", author |-> <<>>, text |-> <<>>]
    /\ self = <<>>

\* Opinion(**kwargs): the field validator runs on the author
ConstructOpinion ==
    /\ self = <<>>
    /\ self' = <<[type |-> kwargs.type,
                  author |-> remove_author_name_punctuation(kwargs.author),
                  text |-> kwargs.text]>>
    /\ UNCHANGED kwargs

\* Opinion(type=self.type, author=self.author, text=self.text): an Opinion is
\* constructed from the fields of the Opinion there is, and the field
\* validator runs on its author
ReconstructOpinion ==
    /\ self # <<>>
    /\ kwargs' = [type |-> self[1].type, author |-> <<self[1].author>>,
                  text |-> self[1].text]
    /\ self' = <<[type |-> self[1].type,
                  author |-> remove_author_name_punctuation(<<self[1].author>>),
                  text |-> self[1].text]>>

(***************************************************************************)
(* Text selection.  Opinion.locate_text and Opinion.select_text hand the   *)
(* work to the anchorpoint package (TextPositionSetFactory.from_selection, *)
(* TextPositionSet.as_text_sequence, TextSequence.__str__), which is       *)
(* modelled from the specification's sections 4.2 to 4.4.  Positions are   *)
(* half-open and count from 0, as in Python.                               *)
(***************************************************************************)
\* the texts of the Opinions of the model: "ab ABc" and "aaa"
Texts == { <<"a", "b", " ", "A", "B", "c">>, <<"a", "a", "a">> }

\* the quotes of the model: "ab", "b", "c", "aa" and "d"
Quotes == { <<"a", "b">>, <<"b">>, <<"c">>, <<"a", "a">>, <<"d">> }

\* a (start, end) pair, and a str or a TextQuoteSelector without prefix and
\* suffix
PositionItem(start, end) ==
    [shape |-> "position", start |-> start, end |-> end, exact |-> <<>>]

QuoteItem(exact) == [shape |-> "quote", start |-> 0, end |-> 0, exact |-> exact]

\* the items a selection of a text can be made of
SelectionItems(text) ==
    UNION {{PositionItem(start, end) : end \in (start + 1)..Len(text)} :
              start \in 0..(Len(text) - 1)}
    \cup {QuoteItem(exact) : exact \in Quotes}

\* the selections of a text: True, False, or a sequence of items (a single
\* item is the sequence of that item)
Selections(text) ==
    { [shape |-> "bool", value |-> b, items |-> <<>>] : b \in BOOLEAN }
    \cup { [shape |-> "sequence", value |-> FALSE, items |-> items] :
             items \in SeqUpTo(SelectionItems(text), MaxSelections) \ {<<>>} }

\* the matching ignores case
Lower(c) == IF c = "A" THEN "a" ELSE IF c = "B" THEN "b" ELSE c

\* exact matches text at position i
MatchesAt(text, exact, i) ==
    /\ i + Len(exact) <= Len(text)
    /\ \A k \in 1..Len(exact) : Lower(text[i + k]) = Lower(exact[k])

\* all the matches of exact in text from position i on, from the left and
\* not overlapping
RECURSIVE finditer(_, _, _)
finditer(text, exact, i) ==
    IF i + Len(exact) > Len(text) THEN <<>>
    ELSE IF MatchesAt(text, exact, i)
         THEN <<[start |-> i, end |-> i + Len(exact)]>>
              \o finditer(text, exact, i + Len(exact))
         ELSE finditer(text, exact, i + 1)

Positions(positions) == [raised |-> "", quote |-> <<>>, positions |-> positions]

\* TextSelectionError, with the quote it names
TextSelectionError(exact) ==
    [raised |-> "TextSelectionError", quote |-> exact, positions |-> <<>>]

\* Text Quote Selector resolution (section 4.4): the positions of the quote,
\* or an error when it matches nowhere.  Whether a repeated quote gives all
\* its matches or the first one is decided by the package: both are modelled.
resolve_quote(text, exact, how) ==
    LET matches == finditer(text, exact, 0)
    IN  IF matches = <<>> THEN TextSelectionError(exact)
        ELSE IF how = "first" THEN Positions(<<matches[1]>>)
             ELSE Positions(matches)

\* the positions, with p put before the first one that starts after it
RECURSIVE insert(_, _)
insert(sorted, p) ==
    IF sorted = <<>> THEN <<p>>
    ELSE IF p.start < Head(sorted).start
              \/ (p.start = Head(sorted).start /\ p.end <= Head(sorted).end)
         THEN <<p>> \o sorted
         ELSE <<Head(sorted)>> \o insert(Tail(sorted), p)

RECURSIVE sort(_)
sort(positions) ==
    IF positions = <<>> THEN <<>> ELSE insert(sort(Tail(positions)), Head(positions))

\* sorted positions, with those that overlap or touch made one
RECURSIVE merge(_)
merge(sorted) ==
    IF Len(sorted) <= 1 THEN sorted
    ELSE LET a == sorted[1]
             b == sorted[2]
         IN  IF b.start <= a.end
             THEN merge(<<[start |-> a.start,
                           end |-> IF b.end > a.end THEN b.end ELSE a.end]>>
                        \o SubSeq(sorted, 3, Len(sorted)))
             ELSE <<a>> \o merge(Tail(sorted))

\* a Text Position Set of the given positions: sorted, nothing overlapping
TextPositionSet(positions) == merge(sort(positions))

\* union (section 4.2)
union(left, right) == TextPositionSet(left \o right)

\* the items of a sequence resolved one after the other and united; the
\* first quote that matches nowhere ends the resolution with its error
RECURSIVE from_sequence(_, _, _, _)
from_sequence(text, items, how, found) ==
    IF items = <<>> THEN Positions(found)
    ELSE LET item == Head(items)
             one == IF item.shape = "position"
                    THEN Positions(<<[start |-> item.start, end |-> item.end]>>)
                    ELSE resolve_quote(text, item.exact, how)
         IN  IF one.raised # "" THEN one
             ELSE from_sequence(text, Tail(items), how, union(found, one.positions))

\* from-selection (section 4.3)
from_selection(text, sel, how) ==
    IF sel.shape = "bool"
    THEN IF sel.value /\ Len(text) > 0
         THEN Positions(<<[start |-> 0, end |-> Len(text)]>>)
         ELSE Positions(<<>>)
    ELSE from_sequence(text, sel.items, how, <<>>)

\* the elements of a text sequence: a passage of the text, or the
\* placeholder of omitted text (None)
Passage(text, p) == [omitted |-> FALSE, text |-> SubSeq(text, p.start + 1, p.end)]

Omitted == [omitted |-> TRUE, text |-> <<>>]

\* the elements that follow, from positions[i] on
RECURSIVE passages_from(_, _, _)
passages_from(positions, text, i) ==
    IF i > Len(positions) THEN <<>>
    ELSE <<Passage(text, positions[i])>>
         \o (IF positions[i].end < Len(text) THEN <<Omitted>> ELSE <<>>)
         \o passages_from(positions, text, i + 1)

\* as-text-sequence without the placeholders
as_text_sequence_without_omitted(positions, text) ==
    [i \in 1..Len(positions) |-> Passage(text, positions[i])]

\* as-text-sequence (section 4.2)
as_text_sequence(positions, text) ==
    IF positions = <<>> THEN <<>>
    ELSE (IF positions[1].start > 0 THEN <<Omitted>> ELSE <<>>)
         \o passages_from(positions, text, 1)

\* the character U+2026 (horizontal ellipsis)
Ellipsis == "U+2026"

\* str(TextSequence): the passages, with the ellipsis for each placeholder
RECURSIVE TextSequence_str(_)
TextSequence_str(passages) ==
    IF passages = <<>> THEN <<>>
    ELSE (IF Head(passages).omitted THEN <<Ellipsis>> ELSE Head(passages).text)
         \o TextSequence_str(Tail(passages))

\* locate_text that gives an empty set when a quote cannot be found
locate_text_or_nothing(sel) ==
    LET found == from_selection(self[1].text, sel, matching)
    IN  IF found.raised # "" THEN Positions(<<>>) ELSE found

\* locate_text that gives the positions latest first
locate_text_latest_first(sel) ==
    LET found == from_selection(self[1].text, sel, matching)
    IN  [found EXCEPT !.positions =
            [i \in 1..Len(found.positions) |->
                found.positions[Len(found.positions) + 1 - i]]]

\* Opinion.locate_text
locate_text(sel) == from_selection(self[1].text, sel, matching)

Sequence(passages) == [raised |-> "", quote |-> <<>>, passages |-> passages]

\* select_text that asks for a text sequence without placeholders
select_text_without_omitted(selector) ==
    LET text_locations == locate_text(selector)
    IN  IF text_locations.raised # ""
        THEN [raised |-> text_locations.raised, quote |-> text_locations.quote,
              passages |-> <<>>]
        ELSE Sequence(as_text_sequence_without_omitted(text_locations.positions,
                                                       self[1].text))

\* Opinion.select_text: an error of locate_text goes on to the caller
select_text(selector) ==
    LET text_locations == locate_text(selector)
    IN  IF text_locations.raised # ""
        THEN [raised |-> text_locations.raised, quote |-> text_locations.quote,
              passages |-> <<>>]
        ELSE Sequence(as_text_sequence(text_locations.positions, self[1].text))

\* an Opinion with a text, a selection of it, and no call made yet
InitText ==
    /\ kwargs \in [type : {"majority"}, author : {<<>>}, text : Texts]
    /\ self = <<[type |-> kwargs.type, author |-> <<>>, text |-> kwargs.text]>>
    /\ selection \in Selections(kwargs.text)
    /\ matching \in {"all", "first"}
    /\ located = <<>>
    /\ selected = <<>>

\* no text is selected
IdleText ==
    /\ selection = [shape |-> "bool", value |-> FALSE, items |-> <<>>]
    /\ matching = "all"
    /\ located = <<>>
    /\ selected = <<>>

LocateText ==
    /\ located = <<>>
    /\ located' = <<locate_text(selection)>>
    /\ UNCHANGED <<selection, matching, selected>>

SelectText ==
    /\ selected = <<>>
    /\ selected' = <<select_text(selection)>>
    /\ UNCHANGED <<selection, matching, located>>

(***************************************************************************)
(* Decision.__str__                                                        *)
(*                                                                         *)
(* A str is the sequence of its characters.  name and name_abbreviation    *)
(* are Optional[str] and citations is an Optional[Sequence[CAPCitation]]:  *)
(* <<>> is None and <<x>> is the value x.                                  *)
(***************************************************************************)
DecisionNames == { <<>>, << <<>> >>, << <<"D", "o", "e", " ", "v", ".", " ", "R", "o", "e", " ", "C", "o", ".">> >> }

DecisionNameAbbreviations == { <<>>, << <<>> >>, << <<"D", "o", "e", " ", "v", ".", " ", "R", "o", "e">> >> }

\* a CAPCitation, as far as Decision.__str__ looks at it
CAPCitation(cite_text) == [cite |-> cite_text]

F3d == CAPCitation(<<"7", "5", "0", " ", "F", ".", "3", "d", " ", "1", "3", "3", "9">>)

WL == CAPCitation(<<"2", "0", "1", "4", " ", "W", "L", " ", "1">>)

DecisionCitations ==
    { <<>>, << <<>> >>, << <<F3d>> >>, << <<F3d, WL>> >>, << <<WL, F3d>> >> }

\* datetime.date values
DecisionDates ==
    { [year |-> 2014, month |-> 5, day |-> 9],
      [year |-> 987, month |-> 12, day |-> 31] }

\* one decimal digit
Digit(n) == <<"0", "1", "2", "3", "4", "5", "6", "7", "8", "9">>[n + 1]

\* str(datetime.date): the year in four digits, the month and the day in two
date_str(d) ==
    << Digit((d.year \div 1000) % 10), Digit((d.year \div 100) % 10),
       Digit((d.year \div 10) % 10), Digit(d.year % 10), "-",
       Digit(d.month \div 10), Digit(d.month % 10), "-",
       Digit(d.day \div 10), Digit(d.day % 10) >>

\* the str that an f-string puts in place of an Optional[str]
format(value) == IF value = <<>> THEN <<"N", "o", "n", "e">> ELSE value[1]

\* bool(x) of an Optional[str] or an Optional[Sequence]: False for None and
\* for the empty value
truthy(value) == value # <<>> /\ value[1] # <<>>

\* a string form that prefers the full name to the abbreviation
Decision_str_name_first ==
    LET citation == IF truthy(decision.citations)
                    THEN decision.citations[1][1].cite ELSE <<>>
        name == IF truthy(decision.name)
                THEN decision.name ELSE decision.name_abbreviation
    IN  format(name) \o <<",", " ">> \o citation \o <<" ", "(">>
            \o date_str(decision.decision_date) \o <<")">>

\* Decision.__str__
Decision_str ==
    LET citation == IF truthy(decision.citations)
                    THEN decision.citations[1][1].cite ELSE <<>>
        name == IF truthy(decision.name_abbreviation)
                THEN decision.name_abbreviation ELSE decision.name
    IN  format(name) \o <<",", " ">> \o citation \o <<" ", "(">>
            \o date_str(decision.decision_date) \o <<")">>

\* a Decision whose string form has not been asked for
InitStr ==
    /\ decision \in [name : DecisionNames,
                     name_abbreviation : DecisionNameAbbreviations,
                     citations : DecisionCitations,
                     decision_date : DecisionDates]
    /\ shown = <<>>

\* the Decision of the other specifications: only its date is given
IdleStr ==
    /\ decision = [name |-> <<>>, name_abbreviation |-> <<>>, citations |-> <<>>,
                   decision_date |-> [year |-> 2014, month |-> 5, day |-> 9]]
    /\ shown = <<>>

\* str(decision)
Str ==
    /\ shown' = <<Decision_str>>
    /\ UNCHANGED decision

(***************************************************************************)
(* locate_text and select_text called on several Opinions                  *)
(***************************************************************************)
SeveralOpinions == {1, 2}

Methods == {"locate_text", "select_text"}

\* the selections of one item, and True and False
SingleSelections(text) ==
    { [shape |-> "bool", value |-> b, items |-> <<>>] : b \in BOOLEAN }
    \cup { [shape |-> "sequence", value |-> FALSE, items |-> <<item>>] :
             item \in SelectionItems(text) }

\* Opinion.locate_text, of the Opinion o
Opinion_locate_text(o, sel) == from_selection(o.text, sel, matching)

\* Opinion.select_text, of the Opinion o
Opinion_select_text(o, selector) ==
    LET text_locations == Opinion_locate_text(o, selector)
    IN  IF text_locations.raised # ""
        THEN [raised |-> text_locations.raised, quote |-> text_locations.quote,
              passages |-> <<>>]
        ELSE Sequence(as_text_sequence(text_locations.positions, o.text))

\* what the method returns when called on the Opinion i with its selection
Call(i, method) ==
    IF method = "locate_text"
    THEN Opinion_locate_text(several[i], selectors[i])
    ELSE Opinion_select_text(several[i], selectors[i])

\* a call that takes the first character off the text of the Opinion
CallOn_consuming(i, method) ==
    /\ answers[<<i, method>>] = <<>>
    /\ answers' = [answers EXCEPT ![<<i, method>>] = <<Call(i, method)>>]
    /\ several' = [several EXCEPT ![i].text = Tail(@)]
    /\ UNCHANGED selectors

\* a locate_text or select_text call on the Opinion i: it assigns nothing
CallOn(i, method) ==
    /\ answers[<<i, method>>] = <<>>
    /\ answers' = [answers EXCEPT ![<<i, method>>] = <<Call(i, method)>>]
    /\ UNCHANGED <<several, selectors>>

\* the texts of the Opinions
SeveralTexts == << <<"a", "b", " ", "A", "B", "c">>, <<"a", "a", "a">> >>

\* the Opinions as they are constructed
SeveralConstructed ==
    [i \in SeveralOpinions |->
        [type |-> "majority", author |-> <<>>, text |-> SeveralTexts[i]]]

\* two Opinions with a text and a selection each; no call made yet
InitSeveral ==
    /\ several = SeveralConstructed
    /\ selectors \in [SeveralOpinions -> UNION {SingleSelections(t) : t \in Texts}]
    /\ \A i \in SeveralOpinions : selectors[i] \in SingleSelections(several[i].text)
    /\ answers = [call \in SeveralOpinions \X Methods |-> <<>>]

\* a single Opinion without a text, never called
IdleSeveral ==
    /\ several = [i \in {1} |-> [type |-> "majority", author |-> <<>>, text |-> <<>>]]
    /\ selectors = [i \in {1} |-> [shape |-> "bool", value |-> FALSE, items |-> <<>>]]
    /\ answers = [call \in {1} \X Methods |-> <<>>]

\* no selection and no call of the single Opinion, whichever way the
\* selector package resolves a repeated quote
IdleTextEitherWay ==
    /\ selection = [shape |-> "bool", value |-> FALSE, items |-> <<>>]
    /\ matching \in {"all", "first"}
    /\ located = <<>>
    /\ selected = <<>>

LocateTextOn == \E i \in SeveralOpinions : CallOn(i, "locate_text")

SelectTextOn == \E i \in SeveralOpinions : CallOn(i, "select_text")

(***************************************************************************)
(* Several Decisions and the Opinion objects they hold                     *)
(*                                                                         *)
(* A Python list holds references: the list of a casebody is the sequence  *)
(* of the identities of its Opinions, and the heap gives the fields of the *)
(* Opinion object with each identity.                                      *)
(***************************************************************************)
Decisions == {"d1", "d2"}

Objects == 1..MaxObjects

HeapAuthors == {"", "Scalia", "Breyer"}

\* Decision.opinions of the Decision d: the identities, in list order
opinions_of(d) == IF casebodies[d].present THEN casebodies[d].opinions ELSE <<>>

\* Decision.find_matching_opinion of the Decision d: None (<<>>) or the
\* identity of the Opinion found
Decision_find_matching_opinion(d, opinion_type, opinion_author) ==
    LET hits == {i \in 1..Len(opinions_of(d)) :
                    MatchesOpinion(heap[opinions_of(d)[i]], opinion_type,
                                   opinion_author)}
    IN  IF opinion_type = "" /\ opinion_author = ""
        THEN IF Len(opinions_of(d)) >= 1 THEN <<opinions_of(d)[1]>> ELSE <<>>
        ELSE IF hits = {} THEN <<>>
             ELSE <<opinions_of(d)[CHOOSE i \in hits : \A j \in hits : i <= j]>>

\* a call, and what it raised
Called(op, d, ref, author, error) ==
    [op |-> op, decision |-> d, opinion |-> ref, author |-> author, raised |-> error]

\* add_opinion that appends a copy of the Opinion it is given
Decision_add_opinion_copy(d, ref) ==
    LET existing == Decision_find_matching_opinion(d, heap[ref].type, heap[ref].author)
    IN  IF existing # <<>>
        THEN /\ last' = Called("add_opinion", d, ref, "", "DecisionError")
             /\ UNCHANGED <<heap, casebodies>>
        ELSE /\ last' = Called("add_opinion", d, ref, "", "")
             /\ heap' = Append(heap, heap[ref])
             /\ casebodies' =
                    [casebodies EXCEPT ![d] =
                        [present |-> TRUE,
                         opinions |-> Append(opinions_of(d), Len(heap) + 1)]]

\* Decision.add_opinion of the Decision d, given the Opinion object ref
Decision_add_opinion(d, ref) ==
    LET existing == Decision_find_matching_opinion(d, heap[ref].type, heap[ref].author)
    IN  IF existing # <<>>
        THEN /\ last' = Called("add_opinion", d, ref, "", "DecisionError")
             /\ UNCHANGED <<heap, casebodies>>
        ELSE /\ last' = Called("add_opinion", d, ref, "", "")
             /\ casebodies' =
                    [casebodies EXCEPT ![d] =
                        [present |-> TRUE, opinions |-> Append(opinions_of(d), ref)]]
             /\ UNCHANGED heap

\* d.opinions[i].author = author: an assignment to a field of the Opinion
\* found in the list of the Decision d
set_author(d, i, author) ==
    /\ last' = Called("author", d, i, author, "")
    /\ heap' = [heap EXCEPT ![opinions_of(d)[i]].author = author]
    /\ UNCHANGED casebodies

NoCall == Called("", "d1", 0, "", "")

\* Opinion objects not yet in any Decision, and Decisions without a casebody
InitHeap ==
    /\ heap \in [Objects -> [type : {"majority"}, author : {"Scalia", "Breyer"}]]
    /\ casebodies = [d \in Decisions |-> NoCaseBody]
    /\ last = NoCall

\* one Opinion object, in no Decision
IdleHeap ==
    /\ heap = <<[type |-> "majority", author |-> "Scalia"]>>
    /\ casebodies = [d \in Decisions |-> NoCaseBody]
    /\ last = NoCall

AddOpinionTo == \E d \in Decisions, ref \in Objects : Decision_add_opinion(d, ref)

SetAuthor ==
    \E d \in Decisions, author \in HeapAuthors :
        \E i \in 1..Len(opinions_of(d)) : set_author(d, i, author)

(***************************************************************************)
(* CAPClient                                                               *)
(*                                                                         *)
(* A character that is not ASCII is named by its code point.               *)
(***************************************************************************)
Token_ == <<"T", "o", "k", "e", "n", " ">>

\* the api_token arguments of CAPClient(...): None, "", "abc", "Token abc",
\* "Token " and "Token Token abc"
ApiTokenArguments ==
    { <<>>, << <<>> >>, << <<"a", "b", "c">> >>, << Token_ \o <<"a", "b", "c">> >>, << Token_ >>,
      << Token_ \o Token_ \o <<"a", "b", "c">> >> }

\* str.startswith
startswith(chars, prefix) ==
    /\ Len(chars) >= Len(prefix)
    /\ SubSeq(chars, 1, Len(prefix)) = prefix

\* chars.split(sep), from the position i on: the part that ends where sep is
\* next found, and the parts after it
RECURSIVE split_from(_, _, _, _)
split_from(chars, sep, i, part) ==
    IF i > Len(chars) THEN <<part>>
    ELSE IF startswith(SubSeq(chars, i, Len(chars)), sep)
         THEN <<part>> \o split_from(chars, sep, i + Len(sep), <<>>)
         ELSE split_from(chars, sep, i + 1, Append(part, chars[i]))

\* str.split(sep)
split(chars, sep) == split_from(chars, sep, 1, <<>>)

\* CAPClient.__init__: the api_token attribute it sets
CAPClient_init(api_token) ==
    LET stripped == IF truthy(api_token) /\ startswith(api_token[1], Token_)
                    THEN <<split(api_token[1], Token_)[2]>>
                    ELSE api_token
    IN  [api_token |-> IF truthy(stripped) THEN stripped[1] ELSE <<>>]

\* the characters for which str.isdigit is true: the decimal digits, of
\* which U+0663 (ARABIC-INDIC DIGIT THREE) is one, and digits that are not
\* decimal, such as U+00B2 (SUPERSCRIPT TWO)
AsciiDigits == {"0", "1", "2", "3", "4", "5", "6", "7", "8", "9"}

DecimalDigits == AsciiDigits \cup {"U+0663"}

DigitCharacters == DecimalDigits \cup {"U+00B2"}

\* the value of a decimal digit
DigitValue(c) ==
    IF c = "U+0663" THEN 3
    ELSE CHOOSE n \in 0..9 : Digit(n) = c

\* str.isdigit: every character is a digit and there is at least one
isdigit(chars) ==
    /\ chars # <<>>
    /\ \A i \in 1..Len(chars) : chars[i] \in DigitCharacters

\* the number that a sequence of decimal digits writes
RECURSIVE DecimalValue(_)
DecimalValue(chars) ==
    IF chars = <<>> THEN 0
    ELSE 10 * DecimalValue(SubSeq(chars, 1, Len(chars) - 1))
         + DigitValue(chars[Len(chars)])

\* a query of the client.  class is the Python class of the value; chars
\* are the characters of a str and text what eyecite finds in it; number is
\* the value of an int or a bool (True is 1 and False is 0)
Query(class, chars, text, cap, citation, number) ==
    [class |-> class, chars |-> chars, text |-> text, cap |-> cap,
     citation |-> citation, number |-> number]

IntQuery(n) == Query("int", <<>>, <<>>, "", <<>>, n)

StrQuery(chars, text) == Query("str", chars, text, "", <<>>, 0)

USCitation ==
    [kind |-> "FullCaseCitation", volume |-> "3", reporter |-> <<"US">>, page |-> "100"]

IdCitation ==
    [kind |-> "IdCitation", volume |-> "", reporter |-> <<>>, page |-> "37"]

\* 0, 40, True, "40", "0", "07", "" and strings of digits that are not ASCII
IdQueries ==
    { IntQuery(0), IntQuery(40), Query("bool", <<>>, <<>>, "", <<>>, 1),
      StrQuery(<<"4", "0">>, <<>>), StrQuery(<<"0">>, <<>>),
      StrQuery(<<"0", "7">>, <<>>), StrQuery(<<>>, <<>>),
      StrQuery(<<"U+0663">>, <<>>), StrQuery(<<"U+00B2">>, <<>>) }

\* "3 US 100", "Id. 37", "see", "4 see", a CAPCitation and a CaseCitation
CiteQueries ==
    { StrQuery(<<"3", " ", "U", "S", " ", "1", "0", "0">>, <<USCitation>>),
      StrQuery(<<"I", "d", ".", " ", "3", "7">>, <<IdCitation>>),
      StrQuery(<<"s", "e", "e">>, <<>>),
      StrQuery(<<"4", " ", "s", "e", "e">>, <<>>),
      Query("CAPCitation", <<>>, <<>>, "460 F. 3d 337", <<>>, 0),
      Query("CaseCitation", <<>>, <<>>, "", <<USCitation>>, 0) }

\* isinstance(query, int)
IsInt(q) == q.class \in {"int", "bool"}

\* int(query), for an int, a bool or a str: ValueError for a str that does
\* not write a decimal number
int_of(q) ==
    IF IsInt(q) THEN [raised |-> "", value |-> q.number]
    ELSE IF q.chars # <<>> /\ \A i \in 1..Len(q.chars) : q.chars[i] \in DecimalDigits
         THEN [raised |-> "", value |-> DecimalValue(q.chars)]
         ELSE [raised |-> "ValueError", value |-> 0]

\* how the API answers: a status code and, with 200, the number of cases in
\* the "results" list of the answer to a search by citation
ApiAnswers ==
    { [status_code |-> 200, results |-> 1], [status_code |-> 200, results |-> 0],
      [status_code |-> 401, results |-> 0], [status_code |-> 404, results |-> 0] }

\* something a call does: it calls a method of the client or a function,
\* or it sends a request.  url is <<>> for the endpoint and <<cap_id>> for
\* the endpoint followed by "{cap_id}/"
Event(event, url, cite_, full, params, headers) ==
    [event |-> event, url |-> url, cite |-> cite_, full_case |-> full,
     params |-> params, headers |-> headers]

NoParams == [cite |-> <<>>, full_case |-> <<>>]

NoHeaders == [Authorization |-> <<>>]

\* a call of fetch_id or read_id
CalledWithId(method, cap_id, full) ==
    Event(method, <<cap_id>>, <<>>, full, NoParams, NoHeaders)

\* a call of fetch_cite, read_cite or normalize_case_cite
CalledWithCite(method, c, full) == Event(method, <<>>, <<c>>, full, NoParams, NoHeaders)

\* requests.get(url, params=params, headers=headers)
Get(url, params, headers) == Event("requests.get", url, <<>>, FALSE, params, headers)

\* what a call did and how it ended
Result(events, error, returned) ==
    [events |-> events, raised |-> error, returned |-> returned]

\* the result of a call that began with the event e
After(e, result) == [result EXCEPT !.events = <<e>> \o @]

\* the requests.models.Response
Response == [class |-> "Response", status_code |-> api.status_code]

\* a Decision made of the body of the response
DecisionRead == [class |-> "Decision", status_code |-> api.status_code]

\* get_api_headers that sends the token whenever the client has one
get_api_headers_token_always(full) ==
    IF full /\ client.api_token = <<>>
    THEN [raised |-> "CaseAccessProjectAPIError", value |-> NoHeaders]
    ELSE IF client.api_token = <<>>
         THEN [raised |-> "", value |-> NoHeaders]
         ELSE [raised |-> "",
               value |-> [Authorization |-> <<Token_ \o client.api_token>>]]

\* CAPClient.get_api_headers
get_api_headers(full) ==
    IF full
    THEN IF client.api_token = <<>>
         THEN [raised |-> "CaseAccessProjectAPIError", value |-> NoHeaders]
         ELSE [raised |-> "",
               value |-> [Authorization |-> <<Token_ \o client.api_token>>]]
    ELSE [raised |-> "", value |-> NoHeaders]

\* fetch_id that returns whatever the API answers
fetch_id_unchecked(cap_id, full) ==
    LET headers == get_api_headers(full)
        params == [cite |-> <<>>, full_case |-> IF full THEN <<"true">> ELSE <<>>]
        called == CalledWithId("get_api_headers", cap_id, full)
    IN  IF headers.raised # ""
        THEN Result(<<called>>, headers.raised, <<>>)
        ELSE Result(<<called, Get(<<cap_id>>, params, headers.value)>>, "",
                    <<Response>>)

\* CAPClient.fetch_id
fetch_id(cap_id, full) ==
    LET headers == get_api_headers(full)
        params == [cite |-> <<>>, full_case |-> IF full THEN <<"true">> ELSE <<>>]
        called == CalledWithId("get_api_headers", cap_id, full)
        sent == <<called, Get(<<cap_id>>, params, headers.value)>>
    IN  IF headers.raised # ""
        THEN Result(<<called>>, headers.raised, <<>>)
        ELSE IF cap_id # 0 /\ api.status_code = 404
             THEN Result(sent, "CaseAccessProjectAPIError", <<>>)
             ELSE Result(sent, "", <<Response>>)

\* fetch_cite that builds the headers before it normalizes the citation
fetch_cite_headers_first(c, full) ==
    LET normalized_cite == normalize_case_cite(c)
        headers == get_api_headers(full)
        params == [cite |-> <<normalized_cite.value>>,
                   full_case |-> IF full THEN <<"true">> ELSE <<>>]
        normalizing == CalledWithCite("normalize_case_cite", c, full)
        called == CalledWithCite("get_api_headers", c, full)
        sent == <<called, normalizing, Get(<<>>, params, headers.value)>>
    IN  IF headers.raised # ""
        THEN Result(<<called>>, headers.raised, <<>>)
        ELSE IF normalized_cite.raised # ""
             THEN Result(<<called, normalizing>>, normalized_cite.raised, <<>>)
             ELSE IF api.status_code = 401
                  THEN Result(sent, "CaseAccessProjectAPIError", <<>>)
                  ELSE Result(sent, "", <<Response>>)

\* CAPClient.fetch_cite
fetch_cite(c, full) ==
    LET normalized_cite == normalize_case_cite(c)
        headers == get_api_headers(full)
        params == [cite |-> <<normalized_cite.value>>,
                   full_case |-> IF full THEN <<"true">> ELSE <<>>]
        normalizing == CalledWithCite("normalize_case_cite", c, full)
        called == CalledWithCite("get_api_headers", c, full)
        sent == <<normalizing, called, Get(<<>>, params, headers.value)>>
    IN  IF normalized_cite.raised # ""
        THEN Result(<<normalizing>>, normalized_cite.raised, <<>>)
        ELSE IF headers.raised # ""
             THEN Result(<<normalizing, called>>, headers.raised, <<>>)
             ELSE IF api.status_code = 401
                  THEN Result(sent, "CaseAccessProjectAPIError", <<>>)
                  ELSE Result(sent, "", <<Response>>)

\* CAPClient.read_id: Decision(**result.json()); only the body of a 200
\* answer has the fields of a Decision
read_id(cap_id, full) ==
    LET result == fetch_id(cap_id, full)
    IN  IF result.raised # "" THEN result
        ELSE IF api.status_code = 200
             THEN [result EXCEPT !.returned = <<DecisionRead>>]
             ELSE [result EXCEPT !.raised = "ValidationError", !.returned = <<>>]

\* CAPClient.read_decision_from_response, of the answer to a search by
\* citation: the first case of "results" in the body of a 200 answer
read_decision_from_response(result) ==
    IF api.status_code = 200
    THEN IF api.results = 0
         THEN [result EXCEPT !.raised = "IndexError", !.returned = <<>>]
         ELSE [result EXCEPT !.returned = <<DecisionRead>>]
    ELSE [result EXCEPT !.raised = "ValidationError", !.returned = <<>>]

\* CAPClient.read_cite
read_cite(c, full) ==
    LET response == fetch_cite(c, full)
    IN  IF response.raised # "" THEN response
        ELSE read_decision_from_response(response)

\* the condition of fetch and of read
ById(q) == IsInt(q) \/ (q.class = "str" /\ isdigit(q.chars))

\* CAPClient.fetch
fetch(q, full) ==
    IF ById(q)
    THEN IF int_of(q).raised # ""
         THEN Result(<<>>, int_of(q).raised, <<>>)
         ELSE After(CalledWithId("fetch_id", int_of(q).value, full),
                    fetch_id(int_of(q).value, full))
    ELSE After(CalledWithCite("fetch_cite", q, full), fetch_cite(q, full))

\* CAPClient.read
read(q, full) ==
    IF ById(q)
    THEN IF int_of(q).raised # ""
         THEN Result(<<>>, int_of(q).raised, <<>>)
         ELSE After(CalledWithId("read_id", int_of(q).value, full),
                    read_id(int_of(q).value, full))
    ELSE After(CalledWithCite("read_cite", q, full), read_cite(q, full))

\* a call of a method of the client, and its result
Done(method, result) == <<[method |-> method, result |-> result]>>

\* a client, and the arguments of a call not yet made
InitClient ==
    /\ client \in {CAPClient_init(api_token) : api_token \in ApiTokenArguments}
    /\ query \in IdQueries \cup CiteQueries
    /\ full_case \in BOOLEAN
    /\ api \in ApiAnswers
    /\ done = <<>>

\* CAPClient(), never called
IdleClient ==
    /\ client = CAPClient_init(<< <<>> >>)
    /\ query = IntQuery(0)
    /\ full_case = FALSE
    /\ api = [status_code |-> 200, results |-> 1]
    /\ done = <<>>

Fetch ==
    /\ done = <<>>
    /\ done' = Done("fetch", fetch(query, full_case))
    /\ UNCHANGED <<client, query, full_case, api>>

Read ==
    /\ done = <<>>
    /\ done' = Done("read", read(query, full_case))
    /\ UNCHANGED <<client, query, full_case, api>>

FetchId ==
    /\ done = <<>>
    /\ IsInt(query)
    /\ done' = Done("fetch_id", fetch_id(query.number, full_case))
    /\ UNCHANGED <<client, query, full_case, api>>

ReadId ==
    /\ done = <<>>
    /\ IsInt(query)
    /\ done' = Done("read_id", read_id(query.number, full_case))
    /\ UNCHANGED <<client, query, full_case, api>>

FetchCite ==
    /\ done = <<>>
    /\ ~IsInt(query)
    /\ done' = Done("fetch_cite", fetch_cite(query, full_case))
    /\ UNCHANGED <<client, query, full_case, api>>

ReadCite ==
    /\ done = <<>>
    /\ ~IsInt(query)
    /\ done' = Done("read_cite", read_cite(query, full_case))
    /\ UNCHANGED <<client, query, full_case, api>>

(***************************************************************************)
(* CourtListenerClient                                                     *)
(*                                                                         *)
(* The str that normalize_case_cite returns is taken apart at its spaces:  *)
(* it is the sequence of its words and of the spaces between them.         *)
(***************************************************************************)
\* the api_token arguments of CourtListenerClient(...): "", "abc" and
\* "Token abc"
CLTokenArguments == { <<>>, <<"a", "b", "c">>, Token_ \o <<"a", "b", "c">> }

\* CourtListenerClient.__init__: the api_token attribute it sets
CourtListenerClient_init(api_token) ==
    [api_token |-> IF api_token # <<>> /\ startswith(api_token, Token_)
                   THEN split(api_token, Token_)[2]
                   ELSE api_token]

FCasCitation ==
    [kind |-> "FullCaseCitation", volume |-> "9", reporter |-> <<"F.", "Cas.">>,
     page |-> "50"]

\* "3 US 100", "9 F. Cas. 50", "see 9 F. Cas. 50", "Id. 37", "see" and two
\* CaseCitations
CLQueries ==
    { StrQuery(<<"3", " ", "U", "S", " ", "1", "0", "0">>, <<USCitation>>),
      StrQuery(<<"9", " ", "F", ".", " ", "C", "a", "s", ".", " ", "5", "0">>, <<FCasCitation>>),
      StrQuery(<<"I", "d", ".", " ", "3", "7", " ", "3", " ", "U", "S", " ", "1", "0", "0">>, <<IdCitation, USCitation>>),
      StrQuery(<<"I", "d", ".", " ", "3", "7">>, <<IdCitation>>),
      StrQuery(<<"s", "e", "e">>, <<>>),
      Query("CaseCitation", <<>>, <<>>, "", <<USCitation>>, 0),
      Query("CaseCitation", <<>>, <<>>, "", <<FCasCitation>>, 0) }

\* " ".join(words)
RECURSIVE join(_)
join(words) ==
    IF Len(words) <= 1 THEN words
    ELSE <<Head(words), " ">> \o join(Tail(words))

\* CourtListenerClient.get_api_headers
CL_get_api_headers(full) ==
    IF full THEN [Authorization |-> <<Token_ \o client.api_token>>] ELSE NoHeaders

\* the data of the lookup request
LookupParams(volume, reporter, page) ==
    [reporter |-> reporter, volume |-> volume, page |-> page]

\* fetch_cite that sends the first word of the citation as the volume, the
\* last as the page and what is between them as the reporter
CL_fetch_cite_whole_reporter(c) ==
    LET normalized_cite == normalize_case_cite(c)
        words == normalized_cite.value
        normalizing == CalledWithCite("normalize_case_cite", c, FALSE)
        called == CalledWithCite("get_api_headers", c, TRUE)
        sent == <<normalizing, called,
                  Get(<<"citation-lookup/">>,
                      LookupParams(<<words[1]>>,
                                   join(SubSeq(words, 2, Len(words) - 1)),
                                   <<words[Len(words)]>>),
                      CL_get_api_headers(TRUE))>>
    IN  IF normalized_cite.raised # ""
        THEN Result(<<normalizing>>, normalized_cite.raised, <<>>)
        ELSE IF api.status_code = 401
             THEN Result(sent, "CourtListenerAPIError", <<>>)
             ELSE Result(sent, "", <<Response>>)

\* CourtListenerClient.fetch_cite
CL_fetch_cite(c) ==
    LET normalized_cite == normalize_case_cite(c)
        parts == split(join(normalized_cite.value), <<" ">>)
        normalizing == CalledWithCite("normalize_case_cite", c, FALSE)
        called == CalledWithCite("get_api_headers", c, TRUE)
        sent == <<normalizing, called,
                  Get(<<"citation-lookup/">>,
                      LookupParams(parts[1], parts[2], parts[3]),
                      CL_get_api_headers(TRUE))>>
    IN  IF normalized_cite.raised # ""
        THEN Result(<<normalizing>>, normalized_cite.raised, <<>>)
        ELSE IF Len(parts) # 3
             THEN Result(<<normalizing>>, "ValueError", <<>>)
             ELSE IF api.status_code = 401
                  THEN Result(sent, "CourtListenerAPIError", <<>>)
                  ELSE Result(sent, "", <<Response>>)

\* the CitationResponse made of the body of the response
CitationResponseRead == [class |-> "CitationResponse", status_code |-> api.status_code]

\* CourtListenerClient.read_cite: CitationResponse(**response.json()[0]);
\* only the body of a 200 answer is a list
CL_read_cite(c) ==
    LET response == CL_fetch_cite(c)
    IN  IF response.raised # "" THEN response
        ELSE IF api.status_code # 200
             THEN [response EXCEPT !.raised = "KeyError", !.returned = <<>>]
             ELSE IF api.results = 0
                  THEN [response EXCEPT !.raised = "IndexError", !.returned = <<>>]
                  ELSE [response EXCEPT !.returned = <<CitationResponseRead>>]

\* a CourtListenerClient, and the citation of a call not yet made
InitCL ==
    /\ client \in {CourtListenerClient_init(api_token) :
                        api_token \in CLTokenArguments}
    /\ query \in CLQueries
    /\ full_case = FALSE
    /\ api \in ApiAnswers
    /\ done = <<>>

CLFetchCite ==
    /\ done = <<>>
    /\ done' = Done("fetch_cite", CL_fetch_cite(query))
    /\ UNCHANGED <<client, query, full_case, api>>

CLReadCite ==
    /\ done = <<>>
    /\ done' = Done("read_cite", CL_read_cite(query))
    /\ UNCHANGED <<client, query, full_case, api>>

(***************************************************************************)
(* Two add_opinion calls on one Decision, each in a thread of its own.     *)
(* Decision.add_opinion takes no lock, and the interpreter may switch      *)
(* threads between any two of its statements and between the read and the  *)
(* store of "self.casebody = self.casebody or CaseBody(...)".  A CaseBody  *)
(* object is named 0 when the Decision had it from the start, and t when   *)
(* the call of thread t created it; the Opinion of thread t is object t.   *)
(***************************************************************************)
Threads == {1, 2}

\* the other thread
Other(t) == CHOOSE u \in Threads : u # t

\* the Opinions thread t may hand to add_opinion
ThreadOpinions(t) ==
    [type : {"", "majority"}, author : {"", "Scalia"}, object : {t}]

\* the Opinion a Decision may hold before the calls
HeldOpinions ==
    { [type |-> "majority", author |-> "Scalia", object |-> 0],
      [type |-> "dissent", author |-> "Breyer", object |-> 0] }

\* no CaseBody object holds an Opinion
NoLists == [body \in {0} \cup Threads |-> <<>>]

\* Decision.opinions, as the threads see it
SharedOpinions ==
    IF memory.casebody = <<>> THEN <<>> ELSE memory.lists[memory.casebody[1]]

\* a lookup that finds nothing
find_nothing_in(list, opinion_type, opinion_author) == <<>>

\* Decision.find_matching_opinion on a list of Opinions
find_matching_opinion_in(list, opinion_type, opinion_author) ==
    IF opinion_type = "" /\ opinion_author = ""
    THEN IF Len(list) >= 1 THEN <<list[1]>> ELSE <<>>
    ELSE LET hits == {i \in 1..Len(list) :
                         MatchesOpinion(list[i], opinion_type, opinion_author)}
         IN  IF hits = {} THEN <<>>
             ELSE <<list[CHOOSE i \in hits : \A j \in hits : i <= j]>>

\* a call that has not taken its first step
NotStarted(o) ==
    [pc |-> "lookup", opinion |-> o, existing |-> <<>>, value |-> <<>>,
     raised |-> ""]

\* a Decision without a casebody, with an empty one or with one Opinion,
\* and two calls about to start
InitRace ==
    /\ memory \in
          {[casebody |-> <<>>, lists |-> NoLists],
           [casebody |-> <<0>>, lists |-> NoLists]}
          \cup {[casebody |-> <<0>>, lists |-> [NoLists EXCEPT ![0] = <<held>>]] :
                    held \in HeldOpinions}
    /\ calls \in {<<NotStarted(o1), NotStarted(o2)>> :
                      o1 \in ThreadOpinions(1), o2 \in ThreadOpinions(2)}
    /\ interleaved = FALSE

\* no thread calls add_opinion
IdleRace ==
    /\ memory = [casebody |-> <<>>, lists |-> NoLists]
    /\ calls = <<>>
    /\ interleaved = FALSE

\* the call of thread u is between its first step and its last
Running(u) == calls[u].pc \notin {"lookup", "done"}

\* existing = self.find_matching_opinion(...); if existing: raise DecisionError
Lookup(t) ==
    LET o == calls[t].opinion
        existing == find_matching_opinion_in(SharedOpinions, o.type, o.author)
    IN  /\ calls[t].pc = "lookup"
        /\ calls' = IF existing # <<>>
                    THEN [calls EXCEPT ![t].pc = "done", ![t].existing = existing,
                                       ![t].raised = "DecisionError"]
                    ELSE [calls EXCEPT ![t].pc = "evaluate"]
        /\ interleaved' = (interleaved \/ Running(Other(t)))
        /\ UNCHANGED memory

\* self.casebody or CaseBody(data=CaseData()): the value of the expression
Evaluate(t) ==
    /\ calls[t].pc = "evaluate"
    /\ calls' = [calls EXCEPT ![t].pc = "store",
                              ![t].value = IF memory.casebody # <<>>
                                           THEN memory.casebody ELSE <<t>>]
    /\ interleaved' = (interleaved \/ Running(Other(t)))
    /\ UNCHANGED memory

\* self.casebody = <that value>
Store(t) ==
    /\ calls[t].pc = "store"
    /\ memory' = [memory EXCEPT !.casebody = calls[t].value]
    /\ calls' = [calls EXCEPT ![t].pc = "append"]
    /\ interleaved' = (interleaved \/ Running(Other(t)))

\* self.casebody.data.opinions.append(opinion)
AppendOpinion(t) ==
    /\ calls[t].pc = "append"
    /\ memory' = [memory EXCEPT
                      !.lists[memory.casebody[1]] = Append(@, calls[t].opinion)]
    /\ calls' = [calls EXCEPT ![t].pc = "done"]
    /\ interleaved' = (interleaved \/ Running(Other(t)))

(***************************************************************************)
(* Specifications                                                          *)
(***************************************************************************)
\* no add_opinion call is made
IdleDecision ==
    /\ casebody = NoCaseBody
    /\ opinion = <<>>
    /\ raised = NoError

\* every other part of the model, idle
IdleOthers ==
    IdleStr /\ IdleRead /\ IdleSeveral /\ IdleHeap /\ IdleClient /\ IdleRace

Init == InitDecision /\ InitCite /\ IdleOpinion /\ IdleText /\ IdleOthers

\* a Decision and the add_opinion calls made on it
Next == AddOpinion /\ UNCHANGED <<cite_vars, opinion_vars, text_vars, other_vars>>

Spec == Init /\ [][Next]_vars

\* calls of normalize_case_cite
NextCite ==
    NormalizeCaseCite /\ UNCHANGED <<decision_vars, opinion_vars, text_vars, other_vars>>

InitSpecCite == IdleDecision /\ InitCite /\ IdleOpinion /\ IdleText /\ IdleOthers

SpecCite == InitSpecCite /\ [][NextCite]_vars

\* the construction of an Opinion, from arguments or from another Opinion
NextOpinion ==
    \/ ConstructOpinion
          /\ UNCHANGED <<decision_vars, cite_vars, text_vars, other_vars>>
    \/ ReconstructOpinion
          /\ UNCHANGED <<decision_vars, cite_vars, text_vars, other_vars>>

InitSpecOpinion == IdleDecision /\ InitCite /\ InitOpinion /\ IdleText /\ IdleOthers

SpecOpinion == InitSpecOpinion /\ [][NextOpinion]_vars

\* locate_text and select_text calls on an Opinion
NextText ==
    \/ LocateText /\ UNCHANGED <<decision_vars, cite_vars, opinion_vars, other_vars>>
    \/ SelectText /\ UNCHANGED <<decision_vars, cite_vars, opinion_vars, other_vars>>

InitSpecText == IdleDecision /\ InitCite /\ InitText /\ IdleOthers

SpecText == InitSpecText /\ [][NextText]_vars

\* the string form of a Decision
NextStr ==
    Str /\ UNCHANGED <<decision_vars, cite_vars, opinion_vars, text_vars, read_vars,
                      several_vars, heap_vars, client_vars,
        race_vars>>

InitSpecStr ==
    /\ IdleDecision /\ InitCite /\ IdleOpinion /\ IdleText
    /\ InitStr /\ IdleRead /\ IdleSeveral /\ IdleHeap /\ IdleClient
    /\ IdleRace

\* a Decision, the add_opinion calls made on it and the reads of it; only
\* the last read since the last add_opinion call is kept
NextReads ==
    \/ AddOpinion /\ asked' = <<>> /\ shown' = <<>>
           /\ UNCHANGED <<decision, cite_vars, opinion_vars, text_vars,
                          several_vars, heap_vars, client_vars,
        race_vars>>
    \/ ReadOpinions /\ shown' = <<>>
           /\ UNCHANGED <<decision, cite_vars, opinion_vars, text_vars,
                          several_vars, heap_vars, client_vars,
        race_vars>>
    \/ ReadMajority /\ shown' = <<>>
           /\ UNCHANGED <<decision, cite_vars, opinion_vars, text_vars,
                          several_vars, heap_vars, client_vars,
        race_vars>>
    \/ FindMatchingOpinion /\ shown' = <<>>
           /\ UNCHANGED <<decision, cite_vars, opinion_vars, text_vars,
                          several_vars, heap_vars, client_vars,
        race_vars>>
    \/ Str /\ asked' = <<>>
           /\ UNCHANGED <<decision_vars, cite_vars, opinion_vars, text_vars,
                          several_vars, heap_vars, client_vars,
        race_vars>>

InitSpecReads ==
    /\ InitDecision /\ InitCite /\ IdleOpinion /\ IdleText
    /\ IdleStr /\ IdleRead /\ IdleSeveral /\ IdleHeap /\ IdleClient
    /\ IdleRace

SpecReads == InitSpecReads /\ [][NextReads]_vars

\* locate_text and select_text calls on several Opinions, in any order
NextSeveral ==
    \/ LocateTextOn /\ UNCHANGED <<decision_vars, cite_vars, opinion_vars, text_vars,
                                   str_vars, read_vars, heap_vars, client_vars,
        race_vars>>
    \/ SelectTextOn /\ UNCHANGED <<decision_vars, cite_vars, opinion_vars, text_vars,
                                   str_vars, read_vars, heap_vars, client_vars,
        race_vars>>

InitSpecSeveral ==
    /\ IdleDecision /\ InitCite /\ IdleOpinion /\ IdleTextEitherWay
    /\ IdleStr /\ IdleRead /\ InitSeveral /\ IdleHeap /\ IdleClient
    /\ IdleRace

SpecSeveral == InitSpecSeveral /\ [][NextSeveral]_vars

SpecStr == InitSpecStr /\ [][NextStr]_vars

\* add_opinion calls on several Decisions, and assignments to the Opinions
\* found in them
NextHeap ==
    \/ AddOpinionTo /\ UNCHANGED <<decision_vars, cite_vars, opinion_vars, text_vars,
                                   str_vars, read_vars, several_vars, client_vars,
        race_vars>>
    \/ SetAuthor /\ UNCHANGED <<decision_vars, cite_vars, opinion_vars, text_vars,
                                str_vars, read_vars, several_vars, client_vars,
        race_vars>>

InitSpecHeap ==
    /\ IdleDecision /\ InitCite /\ IdleOpinion /\ IdleText
    /\ IdleStr /\ IdleRead /\ IdleSeveral /\ InitHeap /\ IdleClient
    /\ IdleRace

SpecHeap == InitSpecHeap /\ [][NextHeap]_vars

\* a call of a method of a CAPClient
NextClient ==
    \/ Fetch /\ UNCHANGED <<decision_vars, cite_vars, opinion_vars, text_vars, str_vars,
                              read_vars, several_vars, heap_vars,
        race_vars>>
    \/ Read /\ UNCHANGED <<decision_vars, cite_vars, opinion_vars, text_vars, str_vars,
                              read_vars, several_vars, heap_vars,
        race_vars>>
    \/ FetchId /\ UNCHANGED <<decision_vars, cite_vars, opinion_vars, text_vars, str_vars,
                              read_vars, several_vars, heap_vars,
        race_vars>>
    \/ ReadId /\ UNCHANGED <<decision_vars, cite_vars, opinion_vars, text_vars, str_vars,
                              read_vars, several_vars, heap_vars,
        race_vars>>
    \/ FetchCite /\ UNCHANGED <<decision_vars, cite_vars, opinion_vars, text_vars, str_vars,
                              read_vars, several_vars, heap_vars,
        race_vars>>
    \/ ReadCite /\ UNCHANGED <<decision_vars, cite_vars, opinion_vars, text_vars, str_vars,
                              read_vars, several_vars, heap_vars,
        race_vars>>

InitSpecClient ==
    /\ IdleDecision /\ InitCite /\ IdleOpinion /\ IdleText
    /\ IdleStr /\ IdleRead /\ IdleSeveral /\ IdleHeap /\ InitClient
    /\ IdleRace

SpecClient == InitSpecClient /\ [][NextClient]_vars

\* a call of a method of a CourtListenerClient
NextCL ==
    \/ CLFetchCite /\ UNCHANGED <<decision_vars, cite_vars, opinion_vars, text_vars, str_vars,
                                  read_vars, several_vars, heap_vars,
        race_vars>>
    \/ CLReadCite /\ UNCHANGED <<decision_vars, cite_vars, opinion_vars, text_vars, str_vars,
                                 read_vars, several_vars, heap_vars,
        race_vars>>

InitSpecCL ==
    /\ IdleDecision /\ InitCite /\ IdleOpinion /\ IdleText
    /\ IdleStr /\ IdleRead /\ IdleSeveral /\ IdleHeap /\ InitCL
    /\ IdleRace

SpecCL == InitSpecCL /\ [][NextCL]_vars

\* a step of one of the two threads
NextRace ==
    \/ (\E t \in Threads : Lookup(t))
          /\ UNCHANGED <<decision_vars, cite_vars, opinion_vars, text_vars, str_vars,
          read_vars, several_vars, heap_vars, client_vars>>
    \/ (\E t \in Threads : Evaluate(t))
          /\ UNCHANGED <<decision_vars, cite_vars, opinion_vars, text_vars, str_vars,
          read_vars, several_vars, heap_vars, client_vars>>
    \/ (\E t \in Threads : Store(t))
          /\ UNCHANGED <<decision_vars, cite_vars, opinion_vars, text_vars, str_vars,
          read_vars, several_vars, heap_vars, client_vars>>
    \/ (\E t \in Threads : AppendOpinion(t))
          /\ UNCHANGED <<decision_vars, cite_vars, opinion_vars, text_vars, str_vars,
          read_vars, several_vars, heap_vars, client_vars>>

InitSpecRace ==
    /\ IdleDecision /\ InitCite /\ IdleOpinion /\ IdleText
    /\ IdleStr /\ IdleRead /\ IdleSeveral /\ IdleHeap /\ IdleClient
    /\ InitRace

SpecRace == InitSpecRace /\ [][NextRace]_vars

(***************************************************************************)
(* Claims about Decision.add_opinion                                       *)
(***************************************************************************)
\* the opinions of the Decision whose (type, author) pair is that of o
SameKey(ops, o) ==
    {i \in 1..Len(ops) : ops[i].type = o.type /\ ops[i].author = o.author}

\* the opinions of the Decision that o's type and author select, when an
\* empty type or author of o selects every type or author
WildcardKey(ops, o) ==
    {i \in 1..Len(ops) :
        /\ o.type \in {"", ops[i].type}
        /\ o.author \in {"", ops[i].author}}

\* C1: an add_opinion call whose Opinion has the (type, author) pair of an
\* Opinion already in the Decision raises DecisionError and leaves the
\* Decision's casebody, and so its opinion list, as it was.
C1_DuplicateFailsUnchanged ==
    [][(opinion' # <<>> /\ SameKey(opinions, opinion'[1]) # {})
         => /\ raised'.error = "DecisionError"
            /\ casebody' = casebody]_vars

\* a duplicate was handed to add_opinion and refused
C1_Witness ==
    /\ opinion # <<>>
    /\ raised.error = "DecisionError"
    /\ SameKey(opinions, opinion[1]) # {}
    /\ Len(opinions) >= 2

\* C2: from a Decision without opinions, after any add_opinion calls, no two
\* opinions of the list have the same (type, author) pair.
C2_UniqueKeys ==
    \A i, j \in 1..Len(opinions) :
        (opinions[i].type = opinions[j].type
         /\ opinions[i].author = opinions[j].author) => i = j

\* a full list, after a call that was refused
C2_Witness ==
    /\ Len(opinions) = MaxOpinions
    /\ raised.error = "DecisionError"

\* C3 as stated: add_opinion fails only when an Opinion of the Decision has
\* exactly the (type, author) pair of the new one (and succeeds, adding it,
\* otherwise).
C3_FailsOnlyOnSameKey ==
    opinion # <<>> =>
        IF raised.error = "DecisionError"
        THEN SameKey(opinions, opinion[1]) # {}
        ELSE /\ Len(opinions) >= 1
             /\ SameKey(opinions, opinion[1]) = {Len(opinions)}

\* C3 amended: add_opinion fails exactly when an Opinion of the Decision is
\* selected by the new Opinion's type and author, an empty type or author
\* selecting any; otherwise it appends the new Opinion.
C3_FailsOnWildcardKey ==
    opinion # <<>> =>
        IF raised.error = "DecisionError"
        THEN WildcardKey(opinions, opinion[1]) # {}
        ELSE /\ Len(opinions) >= 1
             /\ opinions[Len(opinions)].type = opinion[1].type
             /\ opinions[Len(opinions)].author = opinion[1].author
             /\ WildcardKey(opinions, opinion[1]) = {Len(opinions)}

\* an Opinion without author was refused although its key was absent
C3_Witness ==
    /\ opinion # <<>>
    /\ raised.error = "DecisionError"
    /\ opinion[1].type # ""
    /\ opinion[1].author = ""
    /\ SameKey(opinions, opinion[1]) = {}

\* C4: add_opinion with an Opinion whose type and author are both empty
\* succeeds on a Decision without opinions, which then has exactly one, and
\* raises DecisionError on a Decision that has an Opinion, whatever it is.
C4_BlankOpinion ==
    [][(opinion' = <<[type |-> "", author |-> ""]>>)
         => IF Len(opinions) = 0
            THEN /\ raised'.error = ""
                 /\ casebody'.present
                 /\ Len(casebody'.opinions) = 1
            ELSE /\ raised'.error = "DecisionError"
                 /\ casebody' = casebody]_vars

\* a blank Opinion was refused by a Decision none of whose opinions is blank
C4_Witness ==
    /\ opinion # <<>>
    /\ opinion[1].type = ""
    /\ opinion[1].author = ""
    /\ raised.error = "DecisionError"
    /\ \A i \in 1..Len(opinions) :
           opinions[i].type # "" /\ opinions[i].author # ""
    /\ Len(opinions) >= 1

\* a blank Opinion was accepted
C4_WitnessAccepted ==
    /\ opinion # <<>>
    /\ raised.error = ""
    /\ opinions = <<[type |-> "", author |-> ""]>>

(***************************************************************************)
(* Claims about normalize_case_cite                                        *)
(***************************************************************************)
\* the case citations among the citations of a text, in the order of the text
CaseCitesOf(text) == SelectSeq(text, LAMBDA item : IsCaseCitation(item))

\* the citations of a text, of whatever kind, in the order of the text
ParsesOf(text) == SelectSeq(text, LAMBDA item : item \in CaseCitations \cup OtherCitations)

\* the last call was given a str
CalledWithStr == cite # <<>> /\ cite[1].class = "str"

\* C5 as stated: given a str, normalize_case_cite returns a citation exactly
\* when the text parses to one case citation, and raises ValueError when it
\* parses to none or to more than one.
C5_ExactlyOneCaseCitation ==
    CalledWithStr =>
        IF Len(CaseCitesOf(cite[1].text)) = 1
        THEN normalized.raised = ""
        ELSE normalized.raised = "ValueError"

\* C5 amended: given a str, normalize_case_cite raises ValueError exactly when
\* the text parses to no case citation; otherwise it returns the corrected
\* form of the first case citation of the text, however many there are.
C5_FirstCaseCitation ==
    CalledWithStr =>
        IF Len(CaseCitesOf(cite[1].text)) = 0
        THEN normalized.raised = "ValueError" /\ normalized.value = <<>>
        ELSE /\ normalized.raised = ""
             /\ normalized.value =
                  LET first == CaseCitesOf(cite[1].text)[1]
                  IN  <<first.volume>>
                      \o (IF first.reporter = <<"US">> THEN <<"U.S.">>
                          ELSE first.reporter)
                      \o <<first.page>>

\* a text with two different case citations, after another citation, was
\* normalized to the first of the two
C5_Witness ==
    /\ CalledWithStr
    /\ Len(CaseCitesOf(cite[1].text)) = 2
    /\ CaseCitesOf(cite[1].text)[1] # CaseCitesOf(cite[1].text)[2]
    /\ ~IsCaseCitation(ParsesOf(cite[1].text)[1])
    /\ normalized.raised = ""

\* C6: given a str none of whose citations is a case citation,
\* normalize_case_cite raises ValueError; after the sentence that no
\* CaseCitation could be located in the text, the message has one sentence
\* for each citation found, in the order of the text, naming the citation and
\* its kind; with no citation found it has the first sentence only.
C6_MessageNamesEveryKind ==
    (CalledWithStr /\ Len(CaseCitesOf(cite[1].text)) = 0) =>
        LET parses == ParsesOf(cite[1].text)
            msg == normalized.message
        IN  /\ normalized.raised = "ValueError"
            /\ Len(msg) = 1 + Len(parses)
            /\ msg[1].part = "Could not locate a CaseCitation in the text"
            /\ msg[1].of = cite[1].text
            /\ \A i \in 1..Len(parses) :
                   /\ msg[i + 1].part = "was type, not CaseCitation"
                   /\ msg[i + 1].of = <<parses[i]>>
                   /\ msg[i + 1].type = parses[i].kind

\* a text with an IdCitation and then a SupraCitation, and no case citation
C6_Witness ==
    /\ CalledWithStr
    /\ Len(CaseCitesOf(cite[1].text)) = 0
    /\ Len(ParsesOf(cite[1].text)) >= 2
    /\ ParsesOf(cite[1].text)[1].kind = "IdCitation"
    /\ ParsesOf(cite[1].text)[2].kind = "SupraCitation"
    /\ normalized.raised = "ValueError"

(***************************************************************************)
(* Claims about the construction of an Opinion                             *)
(***************************************************************************)
\* an Opinion was constructed with the author "Judge. Scalia."
ConstructedJudgeScalia ==
    /\ self # <<>>
    /\ kwargs.author = <<Judge_ \o <<" ">> \o Scalia \o <<".">>>>

\* C7 as stated: an Opinion constructed with author "Judge. Scalia." has
\* author "Judge Scalia".
C7_JudgeScaliaNoPeriod ==
    ConstructedJudgeScalia => self[1].author = Judge \o <<" ">> \o Scalia

\* C7 amended: the author of a constructed Opinion neither starts nor ends
\* with one of the separators , space - : ; but a period at the end of the
\* name that does not belong to "Judge." or "Justice." is kept: an Opinion
\* constructed with author "Judge. Scalia." has author "Judge Scalia.".
C7_TrailingPeriodKept ==
    self # <<>> =>
        LET author == self[1].author
            given == IF kwargs.author = <<>> THEN <<>> ELSE kwargs.author[1]
            n == Len(given)
            EndsWith(suffix) ==
                n >= Len(suffix) /\ SubSeq(given, n - Len(suffix) + 1, n) = suffix
        IN  /\ author # <<>> =>
                /\ author[1] \notin {",", " ", "-", ":", ";"}
                /\ author[Len(author)] \notin {",", " ", "-", ":", ";"}
            /\ (EndsWith(<<".">>) /\ ~EndsWith(Judge_) /\ ~EndsWith(Justice_))
                => (author # <<>> /\ author[Len(author)] = ".")
            /\ ConstructedJudgeScalia
                => author = Judge \o <<" ">> \o Scalia \o <<".">>

\* the Opinion of the example has been constructed
C7_Witness == ConstructedJudgeScalia /\ self[1].author # kwargs.author[1]

\* C22: the normalization of the author is idempotent: an Opinion constructed
\* from the fields of an Opinion has the author of that Opinion.
C22_AuthorNormalizationIdempotent ==
    [][(self # <<>> /\ self' # <<>>) => self'[1].author = self[1].author]_vars

(***************************************************************************)
(* Claims about Opinion.locate_text and Opinion.select_text                *)
(***************************************************************************)
\* the selection is a sequence of (start, end) spans no two of which
\* overlap or touch
NonAdjacentSpans ==
    /\ selection.shape = "sequence"
    /\ \A i \in 1..Len(selection.items) : selection.items[i].shape = "position"
    /\ \A i, j \in 1..Len(selection.items) :
           i # j => \/ selection.items[i].end < selection.items[j].start
                    \/ selection.items[j].end < selection.items[i].start

\* the character at index i of the text is inside a span of the selection
InSpan(i) ==
    \E k \in 1..Len(selection.items) :
        selection.items[k].start <= i /\ i < selection.items[k].end

\* the text from index i on, every stretch of it outside the spans replaced
\* by one ellipsis
RECURSIVE WithOmissions(_, _)
WithOmissions(text, i) ==
    IF i >= Len(text) THEN <<>>
    ELSE (IF InSpan(i) THEN <<text[i + 1]>>
          ELSE IF i = 0 \/ InSpan(i - 1) THEN <<Ellipsis>> ELSE <<>>)
         \o WithOmissions(text, i + 1)

\* C8: select_text on a sequence of non-adjacent spans gives one passage per
\* span, and its string is the text of the spans in start order with one
\* ellipsis wherever text is left out: between two spans, before the first
\* span when it does not start at 0, after the last when it ends before the
\* end of the text.
C8_SpansWithEllipses ==
    (NonAdjacentSpans /\ selected # <<>>) =>
        /\ selected[1].raised = ""
        /\ Len(SelectSeq(selected[1].passages, LAMBDA e : ~e.omitted))
             = Len(selection.items)
        /\ TextSequence_str(selected[1].passages) = WithOmissions(self[1].text, 0)

\* the spans [3,5) and [1,2) of "ab ABc", given in this order, selected as
\* ...b...AB... (each ... one ellipsis character)
C8_Witness ==
    /\ self[1].text = <<"a", "b", " ", "A", "B", "c">>
    /\ selection.shape = "sequence"
    /\ selection.items = <<PositionItem(3, 5), PositionItem(1, 2)>>
    /\ selected # <<>>
    /\ TextSequence_str(selected[1].passages)
         = <<Ellipsis, "b", Ellipsis, "A", "B", Ellipsis>>

\* the quotes of the selection that occur nowhere in the text, whatever the
\* case of the letters
UnmatchedQuotes ==
    {exact \in {selection.items[k].exact :
                   k \in {n \in 1..Len(selection.items) :
                             selection.items[n].shape = "quote"}} :
        \A i \in 0..(Len(self[1].text) - Len(exact)) :
            \E k \in 1..Len(exact) :
                Lower(self[1].text[i + k]) # Lower(exact[k])}

SortedDisjoint(positions) ==
    \A i \in 1..(Len(positions) - 1) :
        /\ positions[i].start < positions[i + 1].start
        /\ positions[i].end <= positions[i + 1].start

\* every single position of the text, as a set of one position
SinglePositions ==
    {<<[start |-> a, end |-> b]>> :
        a \in 0..(Len(self[1].text) - 1), b \in 1..Len(self[1].text)}
    \cap {<<[start |-> a, end |-> b]>> :
        a \in 0..Len(self[1].text), b \in 0..Len(self[1].text)}

\* C11: the union of a set that locate_text produced with itself is that
\* set; that set, and its union with any position of the text, is sorted by
\* start and has no two members that overlap.
C11_UnionIdempotentNormalized ==
    (located # <<>> /\ located[1].raised = "") =>
        LET S == located[1].positions
        IN  /\ union(S, S) = S
            /\ SortedDisjoint(S)
            /\ \A p \in {q \in SinglePositions : q[1].start < q[1].end} :
                   SortedDisjoint(union(S, p)) /\ SortedDisjoint(union(p, S))

\* two overlapping spans, the later one given first, were located as one
C11_Witness ==
    /\ selection.shape = "sequence"
    /\ selection.items = <<PositionItem(3, 5), PositionItem(1, 4)>>
    /\ located # <<>>
    /\ located[1].positions = <<[start |-> 1, end |-> 5]>>

(***************************************************************************)
(* Claims about Decision.__str__                                           *)
(***************************************************************************)
\* the dates of the model as str() prints them
PrintedDate ==
    IF decision.decision_date.year = 2014
    THEN <<"2", "0", "1", "4", "-", "0", "5", "-", "0", "9">> ELSE <<"0", "9", "8", "7", "-", "1", "2", "-", "3", "1">>

\* C15: the string form of a Decision is the abbreviation of its name when
\* that is a non-empty str and its full name otherwise, then ", ", the cite
\* of the first element of its citations (nothing without citations), then
\* " (", the decision date and ")".
C15_StringForm ==
    shown # <<>> =>
        LET abbreviation == decision.name_abbreviation
            name == IF abbreviation # <<>> /\ Len(abbreviation[1]) > 0
                    THEN abbreviation[1]
                    ELSE IF decision.name = <<>>
                         THEN <<"N", "o", "n", "e">> ELSE decision.name[1]
            first == IF decision.citations # <<>> /\ Len(decision.citations[1]) > 0
                     THEN Head(decision.citations[1]).cite ELSE <<>>
        IN  shown[1] = name \o <<",", " ">> \o first \o <<" ", "(">>
                           \o PrintedDate \o <<")">>

\* with an empty abbreviation and two citations, the full name and the first
\* citation were shown
C15_Witness ==
    /\ decision.name_abbreviation = << <<>> >>
    /\ decision.citations = << <<WL, F3d>> >>
    /\ shown = << <<"D", "o", "e", " ", "v", ".", " ", "R", "o", "e", " ", "C", "o", ".", ",", " ", "2", "0", "1", "4", " ", "W", "L", " ", "1", " ", "(", "2", "0", "1", "4", "-", "0", "5", "-", "0", "9", ")">> >>

(***************************************************************************)
(* Claims about the opinion list of a Decision and the reads of it         *)
(***************************************************************************)
\* every Opinion of the list before is at its index in the list after
KeepsEveryOpinion(before, after) ==
    /\ Len(before) <= Len(after)
    /\ \A i \in 1..Len(before) : after[i] = before[i]

\* C18: the opinion list of a Decision only grows: every step keeps every
\* Opinion at its index; an add_opinion call that succeeds makes the list
\* the list before with the given Opinion appended; one that fails leaves
\* the casebody as it was; opinions, majority, find_matching_opinion and the
\* string form leave the casebody as it was.
C18_ListOnlyGrows ==
    [][/\ KeepsEveryOpinion(opinions, opinions')
       /\ (decision_vars' # decision_vars /\ raised'.error = "")
             => opinions' = Append(opinions, opinion'[1])
       /\ raised'.error # "" => casebody' = casebody
       /\ (asked' # <<>> \/ shown' # <<>>) => casebody' = casebody]_vars

\* a Decision with two Opinions refused a third, and was then read
C18_Witness ==
    /\ Len(opinions) = 2
    /\ raised.error = "DecisionError"
    /\ asked # <<>>
    /\ asked[1].op = "majority"
    /\ asked[1].returned # <<>>

\* C19: find_matching_opinion returns the Opinion with the lowest index
\* among those whose type is opinion_type (or any type when opinion_type is
\* empty) and whose author is opinion_author (or any author when
\* opinion_author is empty); with both empty that is the first Opinion of
\* the list; it returns None exactly when there is no such Opinion, as is
\* the case when the Decision has no casebody.
C19_FirstMatchInListOrder ==
    (asked # <<>> /\ asked[1].op = "find_matching_opinion") =>
        LET returned == asked[1].returned
            wanted == [type |-> asked[1].opinion_type,
                       author |-> asked[1].opinion_author]
            matches == WildcardKey(opinions, wanted)
        IN  /\ returned = <<>> <=> matches = {}
            /\ matches # {} =>
                  \E i \in matches :
                      /\ returned = <<opinions[i]>>
                      /\ \A j \in matches : i <= j
            /\ (wanted.type = "" /\ wanted.author = "" /\ opinions # <<>>)
                  => returned = <<opinions[1]>>
            /\ ~casebody.present => returned = <<>>

\* asked for any Opinion by Scalia, the Decision returned the earlier of two
C19_Witness ==
    /\ opinions = <<[type |-> "dissent", author |-> "Breyer"],
                    [type |-> "majority", author |-> "Scalia"],
                    [type |-> "dissent", author |-> "Scalia"]>>
    /\ asked = Asked("find_matching_opinion", "", "Scalia",
                     <<[type |-> "majority", author |-> "Scalia"]>>)

(***************************************************************************)
(* Claims about calls on several Opinions                                  *)
(***************************************************************************)
\* every call made so far returned what the same call returns now
EachAnswerAsAlone ==
    \A i \in SeveralOpinions, method \in Methods :
        answers[<<i, method>>] # <<>> => answers[<<i, method>>][1] = Call(i, method)

\* C16: after any locate_text and select_text calls, whether they returned
\* or raised, the type, the author and the text of every Opinion are as
\* they were constructed, and whatever the order of the calls on the two
\* Opinions, each call has returned what that call returns on its Opinion
\* when made alone.
C16_CallsLeaveOpinionsUnchanged ==
    several = SeveralConstructed /\ EachAnswerAsAlone

\* all four calls were made; on the first Opinion they raised, on the second
\* they returned
C16_Witness ==
    /\ \A call \in SeveralOpinions \X Methods : answers[call] # <<>>
    /\ answers[<<1, "locate_text">>][1].raised # ""
    /\ answers[<<1, "select_text">>][1].raised # ""
    /\ answers[<<2, "locate_text">>][1].raised = ""
    /\ answers[<<2, "locate_text">>][1].positions # <<>>
    /\ answers[<<2, "select_text">>][1].raised = ""

(***************************************************************************)
(* Claims about the ownership of Opinions                                  *)
(***************************************************************************)
\* the identities in the list of the Decision d
MembersOf(d) == {opinions_of(d)[i] : i \in 1..Len(opinions_of(d))}

\* C17, as the specification states it: no Opinion object is a member of
\* the opinion lists of two different Decisions.
C17_ExclusiveOwnership ==
    \A d \in Decisions, e \in Decisions :
        d # e => MembersOf(d) \cap MembersOf(e) = {}

\* C17, amended: an add_opinion call on one Decision leaves the casebody of
\* every other Decision and every Opinion object as they were, and when it
\* succeeds it appends the very object it was given, not a copy; so an
\* object given to two Decisions is a member of both lists, and an
\* assignment to an Opinion found through one Decision leaves every casebody
\* as it was and shows in every Decision whose list holds that object.
C17_ListsOwnedObjectsShared ==
    [][/\ last'.op = "add_opinion" =>
            /\ \A e \in Decisions \ {last'.decision} :
                   casebodies'[e] = casebodies[e]
            /\ heap' = heap
            /\ last'.raised = "" =>
                   casebodies'[last'.decision].opinions =
                       Append(opinions_of(last'.decision), last'.opinion)
       /\ last'.op = "author" =>
            /\ casebodies' = casebodies
            /\ \A e \in Decisions :
                   \A j \in 1..Len(opinions_of(e)) :
                       opinions_of(e)[j] = opinions_of(last'.decision)[last'.opinion]
                           => heap'[opinions_of(e)[j]].author = last'.author]_vars

\* an Opinion object is in the lists of both Decisions, and the author
\* assigned to it through d1 is the author that d2 shows
C17_Witness ==
    /\ MembersOf("d1") \cap MembersOf("d2") # {}
    /\ last.op = "author"
    /\ last.decision = "d1"
    /\ last.author = "Breyer"
    /\ opinions_of("d1")[last.opinion] \in MembersOf("d2")
    /\ \E j \in 1..Len(opinions_of("d2")) :
           /\ opinions_of("d2")[j] = opinions_of("d1")[last.opinion]
           /\ heap[opinions_of("d2")[j]].author = "Breyer"

(***************************************************************************)
(* Claims about CAPClient                                                  *)
(***************************************************************************)
\* the call that was made, and what it did
Method == done[1].method

Events == done[1].result.events

Raised == done[1].result.raised

\* the places of the events of the given kinds among what the call did
EventsOf(kinds) == {i \in 1..Len(Events) : Events[i].event \in kinds}

\* the query is an integer or a string that consists only of digits
IntegerOrDigits ==
    \/ query.class \in {"int", "bool"}
    \/ /\ query.class = "str"
       /\ query.chars # <<>>
       /\ \A i \in 1..Len(query.chars) : query.chars[i] \in DigitCharacters

\* C12: a fetch or read call takes exactly one of the two routes: the route
\* by id exactly when the query is an integer or a string that consists
\* only of digits, with the query as an integer, and the route by citation
\* for every other query, with the query as it is; full_case is passed on
\* as it was given.
C12_ExactlyOneRoute ==
    (done # <<>> /\ Method \in {"fetch", "read"}) =>
        LET by_id == EventsOf({Method \o "_id"})
            by_cite == EventsOf({Method \o "_cite"})
        IN  /\ Cardinality(by_id) + Cardinality(by_cite) = 1
            /\ by_id # {} <=> IntegerOrDigits
            /\ by_id # {} =>
                  Events[1] = CalledWithId(Method \o "_id", int_of(query).value,
                                           full_case)
            /\ by_cite # {} =>
                  Events[1] = CalledWithCite(Method \o "_cite", query, full_case)

\* the requests the call sent
Requests == EventsOf({"requests.get"})

\* what the claim says of the headers and parameters of a request
HeadersAsAsked ==
    /\ ~full_case =>
          \A i \in Requests : Events[i].headers.Authorization = <<>>
    /\ (full_case /\ client.api_token # <<>>) =>
          \A i \in Requests :
              /\ Events[i].headers.Authorization = <<Token_ \o client.api_token>>
              /\ Events[i].params.full_case = <<"true">>

\* C13, as the specification states it: on a client without a token every
\* fetch_cite or fetch_id call with full_case=True raises
\* CaseAccessProjectAPIError and sends no request; a request sent with
\* full_case=False has no Authorization header, and one sent with a token
\* and full_case=True has the header "Token <token>" and the parameter
\* full_case=true.
C13_NoTokenFullCaseApiError ==
    (done # <<>> /\ Method \in {"fetch_cite", "fetch_id"}) =>
        /\ (full_case /\ client.api_token = <<>>) =>
              /\ Raised = "CaseAccessProjectAPIError"
              /\ Requests = {}
        /\ HeadersAsAsked

\* C13, amended: on a client without a token, every fetch_id call with
\* full_case=True, and every fetch_cite call with full_case=True whose
\* citation normalize_case_cite accepts, raises CaseAccessProjectAPIError
\* and sends no request; a fetch_cite call whose citation it does not accept
\* raises ValueError and sends no request either.  The headers and the
\* parameter are as the specification states them.
C13_NoTokenFullCaseFails ==
    (done # <<>> /\ Method \in {"fetch_cite", "fetch_id"}) =>
        /\ (full_case /\ client.api_token = <<>>) =>
              /\ Requests = {}
              /\ Raised =
                    IF Method = "fetch_cite" /\ normalize_case_cite(query).raised # ""
                    THEN "ValueError" ELSE "CaseAccessProjectAPIError"
        /\ HeadersAsAsked

\* a fetch_cite call with a citation that can be normalized, on a client
\* without a token and with full_case=True, raised the error of the API
C13_Witness ==
    /\ done # <<>>
    /\ Method = "fetch_cite"
    /\ full_case
    /\ client.api_token = <<>>
    /\ normalize_case_cite(query).raised = ""
    /\ Raised = "CaseAccessProjectAPIError"
    /\ Requests = {}

\* C14, as the specification states it: a fetch_id call whose request is
\* answered with 404, and a fetch_cite call whose request is answered with
\* 401, raises CaseAccessProjectAPIError and returns no response.
C14_FailingResponseRaises ==
    (done # <<>> /\ Requests # {}) =>
        /\ (Method = "fetch_id" /\ api.status_code = 404) =>
              /\ Raised = "CaseAccessProjectAPIError"
              /\ done[1].result.returned = <<>>
        /\ (Method = "fetch_cite" /\ api.status_code = 401) =>
              /\ Raised = "CaseAccessProjectAPIError"
              /\ done[1].result.returned = <<>>

\* C14, amended: a fetch_id call with an id other than 0 whose request is
\* answered with 404, and a fetch_cite call whose request is answered with
\* 401, raises CaseAccessProjectAPIError and returns no response; a
\* fetch_id call with the id 0 returns the 404 response to its caller.
C14_FailingResponseRaisesUnlessIdZero ==
    (done # <<>> /\ Requests # {}) =>
        /\ (Method = "fetch_id" /\ api.status_code = 404 /\ query.number # 0) =>
              /\ Raised = "CaseAccessProjectAPIError"
              /\ done[1].result.returned = <<>>
        /\ (Method = "fetch_id" /\ api.status_code = 404 /\ query.number = 0) =>
              /\ Raised = ""
              /\ done[1].result.returned =
                     <<[class |-> "Response", status_code |-> 404]>>
        /\ (Method = "fetch_cite" /\ api.status_code = 401) =>
              /\ Raised = "CaseAccessProjectAPIError"
              /\ done[1].result.returned = <<>>

\* the request of fetch_id(40) was answered with 404, and the call raised
C14_Witness ==
    /\ done # <<>>
    /\ Method = "fetch_id"
    /\ query = IntQuery(40)
    /\ Requests # {}
    /\ api.status_code = 404
    /\ Raised = "CaseAccessProjectAPIError"

\* no case citation can be found in the query: it is a str, and nothing
\* that eyecite finds in it is a CaseCitation
NoCaseCitationFound ==
    /\ query.class = "str"
    /\ \A i \in 1..Len(query.text) : ~IsCaseCitation(query.text[i])

\* C20: a fetch_cite call given a text in which no case citation can be
\* found raises ValueError without having called get_api_headers and
\* without having sent a request, with or without a token and whatever
\* full_case is.
C20_ValueErrorBeforeHeaders ==
    (done # <<>> /\ Method = "fetch_cite" /\ NoCaseCitationFound) =>
        /\ Raised = "ValueError"
        /\ EventsOf({"get_api_headers", "requests.get"}) = {}

\* without a token and with full_case=True, where get_api_headers would
\* raise, fetch_cite("Id. 37") raised ValueError
C20_Witness ==
    /\ done # <<>>
    /\ Method = "fetch_cite"
    /\ query.text = <<IdCitation>>
    /\ full_case
    /\ client.api_token = <<>>
    /\ Raised = "ValueError"

(***************************************************************************)
(* Claims about CourtListenerClient                                        *)
(***************************************************************************)
\* the case citation that normalize_case_cite takes from the query
CitationOfQuery ==
    IF query.class = "CaseCitation" THEN query.citation[1]
    ELSE LET found == SelectSeq(query.text, IsCaseCitation) IN found[1]

\* C21: a fetch_cite call of a CourtListenerClient with a citation that
\* normalize_case_cite accepts sends exactly one request, and the data of
\* that request are the volume, the reporter and the page of the normalized
\* citation, also when the reporter has a space in it.
C21_LookupByVolumeReporterPage ==
    (done # <<>> /\ Method = "fetch_cite" /\ normalize_case_cite(query).raised = "") =>
        /\ Cardinality(Requests) = 1
        /\ \A i \in Requests :
              Events[i].params =
                  LookupParams(<<CitationOfQuery.volume>>,
                               join(corrected_reporter(CitationOfQuery.reporter)),
                               <<CitationOfQuery.page>>)

(***************************************************************************)
(* Claims about two concurrent add_opinion calls                           *)
(***************************************************************************)
\* both calls have returned or raised
Finished == \A t \in Threads : calls[t].pc = "done"

\* the two Opinions have the same type and the same author
SameTypeAndAuthor ==
    /\ calls[1].opinion.type = calls[2].opinion.type
    /\ calls[1].opinion.author = calls[2].opinion.author

Succeeded(t) == calls[t].pc = "done" /\ calls[t].raised = ""

\* at most one of the two calls succeeded and the other raised
\* DecisionError; the list has the key of the calls at most once, and has
\* the Opinion of every call that succeeded
AtMostOneAdded ==
    LET list == SharedOpinions
        key == calls[1].opinion
    IN  /\ Cardinality({t \in Threads : Succeeded(t)}) <= 1
        /\ \A t \in Threads : Succeeded(t) \/ calls[t].raised = "DecisionError"
        /\ Cardinality({i \in 1..Len(list) :
                            /\ list[i].type = key.type
                            /\ list[i].author = key.author}) <= 1
        /\ \A t \in Threads :
              Succeeded(t) => \E i \in 1..Len(list) : list[i] = calls[t].opinion

\* C23 as stated: when two add_opinion calls with Opinions of the same type
\* and author run concurrently on one Decision, in every interleaving of
\* their steps at most one succeeds and the other raises DecisionError, the
\* list has that key at most once and has every Opinion a successful call
\* appended.
C23_AtMostOneInEveryInterleaving ==
    (Finished /\ SameTypeAndAuthor) => AtMostOneAdded

\* C23 amended: that holds when the calls run one after the other, no step
\* of one taken between the lookup and the append of the other; and in every
\* interleaving each call ends by returning or by raising DecisionError
\* with the Opinion its lookup found.
C23_AtMostOneWhenNotInterleaved ==
    /\ (Finished /\ SameTypeAndAuthor /\ ~interleaved) => AtMostOneAdded
    /\ \A t \in DOMAIN calls :
          calls[t].pc = "done" =>
              \/ calls[t].raised = "" /\ calls[t].existing = <<>>
              \/ calls[t].raised = "DecisionError" /\ calls[t].existing # <<>>

\* the two calls ran one after the other with the same key on a Decision
\* that had no casebody: one added its Opinion, the other raised
C23_Witness ==
    /\ Finished /\ SameTypeAndAuthor /\ ~interleaved
    /\ \E t \in Threads :
          /\ Succeeded(t)
          /\ calls[Other(t)].raised = "DecisionError"
          /\ calls[Other(t)].existing = <<calls[t].opinion>>
          /\ SharedOpinions = <<calls[t].opinion>>
          /\ memory.casebody = <<t>>

====
